---------------------------- MODULE Spec2Model ----------------------------
(***************************************************************************)
(* A model of the BASIC interpreter: the lexer of lexer.cc and the parser  *)
(* of parser.cc, which main() runs on the text of a program, and the       *)
(* execution engine that runs the tree they build: the frame stack of      *)
(* interpreter.cc, the statements of statements.cc and the number type of  *)
(* number.cc.                                                              *)
(***************************************************************************)
EXTENDS Integers, Sequences, FiniteSets, TLC

(***************************************************************************)
(* Bounds of the model.                                                    *)
(***************************************************************************)
\* The longest run of statements followed (programs that loop for ever are cut here).
MaxSteps == 26
\* FOR loops of the counting programs: initial in 0..MaxInitial,
\* final in -1..MaxFinal, step in 1..MaxStep.
MaxInitial == 1
MaxFinal == 3
MaxStep == 2
\* An INPUT line holds an integer of 0..MaxInput, or no integer at all.
MaxInput == 1
\* The operands of the printed expressions are 1..MaxOperand.
MaxOperand == 2

(***************************************************************************)
(* number.cc: a number is an int, a double and the integral flag.  The     *)
(* double is kept as an exact fraction <<n, d>> with d > 0 in lowest       *)
(* terms; <<s, 0>> is what IEEE division by 0.0 gives (s = 1: +inf, s = -1:*)
(* -inf, s = 0: NaN).  The ints of the model stay far inside the range of  *)
(* int, where the code's arithmetic is exact.                              *)
(***************************************************************************)
Abs(v) == IF v < 0 THEN 0 - v ELSE v

Sign(v) == IF v < 0 THEN 0 - 1 ELSE IF v > 0 THEN 1 ELSE 0

RECURSIVE Gcd(_, _)
Gcd(a, b) == IF b = 0 THEN a ELSE Gcd(b, a % b)

\* C++ integer division truncates toward zero; the remainder has the dividend's sign.
CDiv(a, b) == Sign(a) * Sign(b) * (Abs(a) \div Abs(b))

CMod(a, b) == a - b * CDiv(a, b)

\* The greatest common divisor is taken of |d| and n mod |d|, so that the least
\* int can be a numerator.
Frac(n, d) ==
    IF d = 0 THEN <<Sign(n), 0>>
    ELSE LET g == Gcd(Abs(d), n % Abs(d))
         IN  <<Sign(d) * (n \div g), Abs(d) \div g>>

FracAdd(x, y) == Frac(x[1] * y[2] + y[1] * x[2], x[2] * y[2])

FracSub(x, y) == Frac(x[1] * y[2] - y[1] * x[2], x[2] * y[2])

FracMul(x, y) == Frac(x[1] * y[1], x[2] * y[2])

FracDiv(x, y) == Frac(x[1] * y[2], x[2] * y[1])

FracLess(x, y) == x[1] * y[2] < y[1] * x[2]

\* static_cast<int>(double): the fraction dropped.
FracTrunc(x) == IF x[2] = 0 THEN 0 ELSE CDiv(x[1], x[2])

number_default == [integral_value |-> 0, floating_point_value |-> <<0, 1>>, integral |-> TRUE]

number_int(value) ==
    [integral_value |-> value, floating_point_value |-> <<value, 1>>, integral |-> TRUE]

number_double(value) ==
    [integral_value |-> FracTrunc(value), floating_point_value |-> value, integral |-> FALSE]

\* Every double of the model is a fraction of ints, so |x| >= epsilon (2^-52)
\* exactly when x # 0.
is_true(num) ==
    (num.integral /\ num.integral_value # 0) \/ num.floating_point_value[1] # 0

\* Variant of check_and_promote: one integral operand makes the result integral.
check_and_promote_either(this, other) == this.integral \/ other.integral

check_and_promote(this, other) == this.integral /\ other.integral

number_plus(this, rhs) ==
    [integral_value |-> this.integral_value + rhs.integral_value,
     floating_point_value |-> FracAdd(this.floating_point_value, rhs.floating_point_value),
     integral |-> check_and_promote(this, rhs)]

number_minus(this, rhs) ==
    [integral_value |-> this.integral_value - rhs.integral_value,
     floating_point_value |-> FracSub(this.floating_point_value, rhs.floating_point_value),
     integral |-> check_and_promote(this, rhs)]

number_times(this, rhs) ==
    [integral_value |-> this.integral_value * rhs.integral_value,
     floating_point_value |-> FracMul(this.floating_point_value, rhs.floating_point_value),
     integral |-> check_and_promote(this, rhs)]

\* The outcome of an evaluation: a value, a runtime_error, or a crash of the
\* process (undefined behaviour).
Value(v) == [res |-> "value", value |-> v]

RuntimeError(what) == [res |-> "error", what |-> what]

Crash == [res |-> "crash"]

\* The least int, numeric_limits<int>::min().
IntMin == 0 - 2147483647 - 1

\* The int quotient and remainder of the least int by -1 are undefined
\* behaviour (a trap on the usual builds).
number_divides(this, rhs) ==
    IF rhs.integral_value # 0
    THEN IF this.integral_value = IntMin /\ rhs.integral_value = 0 - 1 THEN Crash
         ELSE
         Value([integral_value |-> CDiv(this.integral_value, rhs.integral_value),
                floating_point_value |->
                    FracDiv(this.floating_point_value, rhs.floating_point_value),
                integral |-> this.integral /\ rhs.integral
                             /\ CMod(this.integral_value, rhs.integral_value) = 0])
    ELSE RuntimeError("Division by zero")

\* An int remainder by zero is undefined behaviour (a trap on the usual builds).
number_modulo(this, rhs) ==
    IF this.integral /\ rhs.integral
    THEN IF rhs.integral_value = 0 THEN Crash
         ELSE LET r == CMod(this.integral_value, rhs.integral_value)
              IN  Value([integral_value |-> r, floating_point_value |-> <<r, 1>>,
                         integral |-> this.integral])
    ELSE RuntimeError("Modulo operation is only defined on whole number types.")

number_negate(num) ==
    IF num.integral THEN number_int(0 - num.integral_value)
    ELSE number_double(Frac(0 - num.floating_point_value[1], num.floating_point_value[2]))

number_equal(lhs, rhs) ==
    IF lhs.integral /\ rhs.integral THEN lhs.integral_value = rhs.integral_value
    ELSE lhs.floating_point_value = rhs.floating_point_value

number_less(lhs, rhs) ==
    IF lhs.integral /\ rhs.integral THEN lhs.integral_value < rhs.integral_value
    ELSE FracLess(lhs.floating_point_value, rhs.floating_point_value)

number_less_equal(lhs, rhs) == number_less(lhs, rhs) \/ number_equal(lhs, rhs)

number_greater(lhs, rhs) == ~number_less_equal(lhs, rhs)

number_greater_equal(lhs, rhs) == ~number_less(lhs, rhs)

\* operator<<: an int as its decimal digits; a double with std::showpoint and
\* the default precision of 6 significant digits (values of 0.0001 <= |x| < 10^6).
Pow10(n) == IF n <= 0 THEN 1 ELSE 10 ^ n

RECURSIVE Digits(_, _)
Digits(v, width) ==
    IF width = 0 THEN ""
    ELSE Digits(v \div 10, width - 1) \o ToString(v % 10)

RECURSIVE Magnitude(_, _)
\* The decimal exponent e of a positive fraction: 10^e <= x < 10^(e+1), from `e` downwards.
Magnitude(x, e) ==
    IF e < 0 - 4 \/ ~FracLess(x, <<Pow10(e), Pow10(0 - e)>>) THEN e
    ELSE Magnitude(x, e - 1)

Precision == 6

float_repr(x) ==
    LET a == <<Abs(x[1]), x[2]>>
        sign == IF x[1] < 0 THEN "-" ELSE ""
    IN  IF x[2] = 0 THEN (IF x[1] = 0 THEN "nan" ELSE sign \o "inf")
        ELSE IF x[1] = 0 THEN "0.00000"
        ELSE LET e == Magnitude(a, Precision - 1)
                 decimals == Precision - 1 - e
                 \* round to `decimals` places, halves up
                 scaled == (2 * a[1] * Pow10(decimals) + a[2]) \div (2 * a[2])
                 whole == scaled \div Pow10(decimals)
             IN  sign \o ToString(whole) \o "."
                      \o Digits(scaled % Pow10(decimals), decimals)

number_repr(num) ==
    IF num.integral THEN ToString(num.integral_value)
    ELSE float_repr(num.floating_point_value)


(***************************************************************************)
(* statements.hh: the expression and statement nodes the parser builds.    *)
(***************************************************************************)
constant_expr(value) == [node |-> "constant", value |-> number_int(value)]

variable_expr(name) == [node |-> "variable", name |-> name]

arith_expr(left_side, right_side, op) ==
    [node |-> "arith", left_side |-> left_side, right_side |-> right_side, op |-> op]

relational_expr(left_side, right_side, op) ==
    [node |-> "relational", left_side |-> left_side, right_side |-> right_side, op |-> op]

boolean_expr(left_side, right_side, op) ==
    [node |-> "boolean", left_side |-> left_side, right_side |-> right_side, op |-> op]

\* The literal's std::string value, named apart from the number of a constant_expr.
string_literal_expr(value) == [node |-> "string_literal", text |-> value]

string_variable_expr(var_name) == [node |-> "string_variable", var_name |-> var_name]

string_concat_expr(left, right) == [node |-> "string_concat", left |-> left, right |-> right]

IsStringExpr(expr) == expr.node \in {"string_literal", "string_variable", "string_concat"}

\* An iterator into the statement list `list` (0: a list that no longer exists);
\* position Len + 1 is end().
Iterator(list, pos) == [list |-> list, pos |-> pos]

Destroyed == 0

NoLabels == <<>>

\* The block parse() returns: built in place, its jump table points into its own list.
block(id, statements, labels) ==
    [statements |-> statements,
     jump_table |-> [l \in DOMAIN labels |-> Iterator(id, labels[l])]]

\* The block a statement node keeps: block's implicit copy constructor gives the
\* copy a new statement list and the jump table of the original, whose iterators
\* point into the parser's local list, destroyed when the parse routine returns.
block_copy(statements, labels) ==
    [statements |-> statements,
     jump_table |-> [l \in DOMAIN labels |-> Iterator(Destroyed, labels[l])]]

if_goto_stmt(condition, then_label, else_label) ==
    [node |-> "if_goto", condition |-> condition,
     then_label |-> then_label, else_label |-> else_label]

if_block_stmt(conditions, blocks) ==
    [node |-> "if_block", conditions |-> conditions, blocks |-> blocks]

do_stmt(condition, body) ==
    [node |-> "do", name |-> "do", condition |-> condition, body |-> body]

for_stmt(variable_name, initial_value, final_value, step, body) ==
    [node |-> "for", name |-> "for", variable_name |-> variable_name,
     initial_expression |-> initial_value, final_expression |-> final_value,
     step_expression |-> step, body |-> body]

print_stmt(expressions) == [node |-> "print", expressions |-> expressions]

input_stmt(var_name) == [node |-> "input", var_name |-> var_name]

let_stmt(var_name, value) == [node |-> "let", var_name |-> var_name, value |-> value]

goto_stmt(label) == [node |-> "goto", label |-> label]

stop_stmt == [node |-> "stop"]

exit_stmt(what) == [node |-> "exit", what |-> what]

empty_stmt == [node |-> "empty"]


(***************************************************************************)
(* The state.  `program` is the tree parse() returned: statement nodes and *)
(* block objects, each known by its index (its address).                   *)
(***************************************************************************)
VARIABLES
    source,           \* the text of the program, the characters main() reads
    program,          \* [stmts, blocks]: blocks[1] is the root block
    blocks,           \* interpreter::blocks, front() first
    should_stop,      \* interpreter::should_stop
    scratch,          \* for_stmt::step and for_stmt::final_value of each FOR node
    output,           \* what was written to std::cout
    status,           \* "start" (main() has not parsed yet), "lexer_error" and
                      \* "syntax_error" (parse() threw), "running" (inside
                      \* run()), "returned", "error" (a runtime_error left
                      \* run()), "crashed" (undefined behaviour), "aborted" (a
                      \* failed assertion)
    error_message,    \* what() of the exception, without the place in the text
    cerr,             \* what main() wrote to std::cerr
    executed,         \* history: the statements run() executed, in order
    iterated,         \* history: the statements whose iterate() was called
    assigned,         \* history: the value each variable was last assigned
    next_frame,       \* history: the identity the next frame pushed gets
    jumped_to,        \* history: the statement whose label the last statement jumped to
    stale,            \* the statement fields of the frames stop() destroyed
    front_on_empty    \* history: front() was evaluated on the empty deque

vars == <<source, program, blocks, should_stop, scratch, output, status, error_message,
          cerr, executed, iterated, assigned, next_frame, jumped_to, stale, front_on_empty>>

\* The interpreter's part of the state as one value, for the operators below.
Machine ==
    [blocks |-> blocks, should_stop |-> should_stop, scratch |-> scratch,
     output |-> output, status |-> status, error_message |-> error_message,
     iterated |-> iterated, assigned |-> assigned, next_frame |-> next_frame,
     jumped_to |-> jumped_to, stale |-> stale, front_on_empty |-> front_on_empty]

NullStatement == 0

StatementNode(s) == program.stmts[s]

BlockObject(b) == program.blocks[b]

Raise(m, what) == [m EXCEPT !.status = "error", !.error_message = what]

Crashed(m) == [m EXCEPT !.status = "crashed"]

\* Variant of the propagation of an exception out of a statement: the statement
\* is given up and the run goes on with the next one.
Fail_swallowed(m, r) == m

\* An evaluation that gave no value ends the statement the way it ended.
Fail(m, r) == IF r.res = "error" THEN Raise(m, r.what) ELSE Crashed(m)

(***************************************************************************)
(* interpreter.cc: the variable store.                                     *)
(***************************************************************************)
\* The index of the first frame from the front that binds `name`, 0 when none does.
find_var(bs, name, variables) ==
    LET found == {i \in 1..Len(bs) : name \in DOMAIN bs[i][variables]}
    IN  IF found = {} THEN 0 ELSE CHOOSE i \in found : \A j \in found : i <= j

\* Variants of set_var: the name is always inserted into the front frame; and the
\* value is inserted where the name is found, which leaves an existing entry of a
\* std::map as it is.
set_var_front(m, name, variables, value) ==
    IF m.blocks = <<>> THEN Crashed([m EXCEPT !.front_on_empty = TRUE])
    ELSE [m EXCEPT !.blocks[1][variables] = (name :> value) @@ @]

set_var_insert(m, name, variables, value) ==
    LET var == find_var(m.blocks, name, variables)
    IN  IF var # 0 THEN m
        ELSE IF m.blocks = <<>> THEN Crashed([m EXCEPT !.front_on_empty = TRUE])
        ELSE [m EXCEPT !.blocks[1][variables] = (name :> value) @@ @]

set_var(m, name, variables, value) ==
    LET var == find_var(m.blocks, name, variables)
    IN  IF var # 0 THEN [m EXCEPT !.blocks[var][variables][name] = value]
        ELSE IF m.blocks = <<>> THEN Crashed([m EXCEPT !.front_on_empty = TRUE])
        ELSE [m EXCEPT !.blocks[1][variables] = (name :> value) @@ @]

\* Variant of get_var: a name that is not found reads as the default value, as
\* operator[] of a std::map would give.
get_var_default(bs, name, variables) ==
    LET var == find_var(bs, name, variables)
    IN  IF var # 0 THEN Value(bs[var][variables][name])
        ELSE Value(IF variables = "numeric_variables" THEN number_default ELSE "")

get_var(bs, name, variables) ==
    LET var == find_var(bs, name, variables)
    IN  IF var # 0 THEN Value(bs[var][variables][name])
        ELSE RuntimeError("Variable " \o name \o " undefined")

set_var_numeric(m, name, value) == set_var(m, name, "numeric_variables", value)

set_var_string(m, name, value) == set_var(m, name, "string_variables", value)

get_var_numeric(bs, name) == get_var(bs, name, "numeric_variables")

get_var_string(bs, name) == get_var(bs, name, "string_variables")

\* History: the assignment statements record what they assigned.
Assigned(m, name, variables, value) ==
    [m EXCEPT !.assigned = (<<variables, name>> :> value) @@ @]

(***************************************************************************)
(* statements.cc: evaluation of expressions.                               *)
(***************************************************************************)
FromBool(b) == number_int(IF b THEN 1 ELSE 0)

arith_apply(op, left, right) ==
    CASE op = "plus" -> Value(number_plus(left, right))
      [] op = "minus" -> Value(number_minus(left, right))
      [] op = "times" -> Value(number_times(left, right))
      [] op = "modulo" -> number_modulo(left, right)
      [] op = "divides" -> number_divides(left, right)

relational_apply(op, left, right) ==
    CASE op = "equals" -> number_equal(left, right)
      [] op = "doesnt_equal" -> ~number_equal(left, right)
      [] op = "less_than" -> number_less(left, right)
      [] op = "less_equal" -> number_less_equal(left, right)
      [] op = "greater_than" -> number_greater(left, right)
      [] op = "greater_equal" -> number_greater_equal(left, right)

RECURSIVE evaluate(_, _)
evaluate(expr, bs) ==
    CASE expr.node = "constant" -> Value(expr.value)
      [] expr.node = "variable" -> get_var_numeric(bs, expr.name)
      [] expr.node = "arith" ->
            LET left == evaluate(expr.left_side, bs)
            IN  IF left.res # "value" THEN left
                ELSE LET right == evaluate(expr.right_side, bs)
                     IN  IF right.res # "value" THEN right
                         ELSE arith_apply(expr.op, left.value, right.value)
      [] expr.node = "relational" ->
            LET left == evaluate(expr.left_side, bs)
            IN  IF left.res # "value" THEN left
                ELSE LET right == evaluate(expr.right_side, bs)
                     IN  IF right.res # "value" THEN right
                         ELSE Value(FromBool(relational_apply(expr.op, left.value, right.value)))
      [] expr.node = "boolean" ->
            LET left == evaluate(expr.left_side, bs)
            IN  IF left.res # "value" THEN left
                ELSE IF expr.op = "not" THEN Value(FromBool(~is_true(left.value)))
                ELSE IF expr.op = "and" /\ ~is_true(left.value) THEN Value(FromBool(FALSE))
                ELSE IF expr.op = "or" /\ is_true(left.value) THEN Value(FromBool(TRUE))
                ELSE LET right == evaluate(expr.right_side, bs)
                     IN  IF right.res # "value" THEN right
                         ELSE Value(FromBool(is_true(right.value)))
      [] expr.node = "string_literal" -> Value(expr.text)
      [] expr.node = "string_variable" -> get_var_string(bs, expr.var_name)
      [] expr.node = "string_concat" ->
            LET left == evaluate(expr.left, bs)
            IN  IF left.res # "value" THEN left
                ELSE LET right == evaluate(expr.right, bs)
                     IN  IF right.res # "value" THEN right
                         ELSE Value(left.value \o right.value)

get_representation(expr, bs) ==
    LET r == evaluate(expr, bs)
    IN  IF r.res # "value" \/ IsStringExpr(expr) THEN r
        ELSE Value(number_repr(r.value))


(***************************************************************************)
(* interpreter.cc: frames, jump, EXIT and STOP.                            *)
(***************************************************************************)
execution_block(b, statement, id) ==
    [statement |-> statement, block |-> b, current_statement |-> Iterator(b, 1),
     numeric_variables |-> <<>>, string_variables |-> <<>>, id |-> id]

enter_block(m, b, statement) ==
    [m EXCEPT !.blocks = <<execution_block(b, statement, m.next_frame)>> \o @,
              !.next_frame = @ + 1]

\* Variant of exit_block: the variables of the popped frame are handed to the
\* frame below it.
exit_block_leaks(m) ==
    IF Len(m.blocks) < 2 THEN [m EXCEPT !.blocks = <<>>]
    ELSE [m EXCEPT !.blocks = <<[m.blocks[2] EXCEPT
                                    !.numeric_variables = @ @@ m.blocks[1].numeric_variables,
                                    !.string_variables = @ @@ m.blocks[1].string_variables]>>
                                \o SubSeq(m.blocks, 3, Len(m.blocks))]

exit_block(m) == IF m.blocks # <<>> THEN [m EXCEPT !.blocks = Tail(@)] ELSE m

\* Variant of exit_block(name): the frames above the named one are popped and
\* the named frame is left on the stack.
RECURSIVE exit_block_above(_, _)
exit_block_above(m, name) ==
    IF m.blocks = <<>> THEN Raise(m, "Cannot EXIT " \o name \o ": No such block")
    ELSE LET front == Head(m.blocks)
             front_name == IF front.statement # NullStatement
                           THEN StatementNode(front.statement).name ELSE ""
         IN  IF front_name = name THEN m
             ELSE exit_block_above([m EXCEPT !.blocks = Tail(@)], name)

\* Variant of exit_block(name): when no frame is attached to a statement of that
\* name the routine returns with the stack it emptied.
RECURSIVE exit_block_named_silent(_, _)
exit_block_named_silent(m, name) ==
    IF m.blocks = <<>> THEN m
    ELSE LET front == Head(m.blocks)
             popped_name == IF front.statement # NullStatement
                            THEN StatementNode(front.statement).name ELSE ""
             popped == [m EXCEPT !.blocks = Tail(@)]
         IN  IF popped_name = name THEN popped ELSE exit_block_named_silent(popped, name)

RECURSIVE exit_block_named(_, _)
exit_block_named(m, name) ==
    IF m.blocks = <<>> THEN Raise(m, "Cannot EXIT " \o name \o ": No such block")
    ELSE LET front == Head(m.blocks)
             popped_name == IF front.statement # NullStatement
                            THEN StatementNode(front.statement).name ELSE ""
             popped == [m EXCEPT !.blocks = Tail(@)]
         IN  IF popped_name = name THEN popped ELSE exit_block_named(popped, name)

\* Variant of jump: when no frame defines the label the jump is given up and
\* run() goes on with the stack as the search left it.
RECURSIVE jump_silent(_, _)
jump_silent(m, label) ==
    IF m.blocks = <<>> THEN m
    ELSE LET jump_table == BlockObject(Head(m.blocks).block).jump_table
         IN  IF label \in DOMAIN jump_table
             THEN [m EXCEPT !.blocks[1].current_statement = jump_table[label],
                            !.jumped_to = BlockObject(Head(m.blocks).block)
                                              .statements[jump_table[label].pos]]
             ELSE jump_silent(exit_block(m), label)

RECURSIVE jump(_, _)
jump(m, label) ==
    IF m.blocks = <<>> THEN Raise(m, "Jump to undefined label " \o label)
    ELSE LET jump_table == BlockObject(Head(m.blocks).block).jump_table
         IN  IF label \in DOMAIN jump_table
             THEN [m EXCEPT !.blocks[1].current_statement = jump_table[label],
                            !.jumped_to = BlockObject(Head(m.blocks).block)
                                              .statements[jump_table[label].pos]]
             ELSE jump(exit_block(m), label)

stop(m) ==
    [m EXCEPT !.stale = {m.blocks[i].statement : i \in 1..Len(m.blocks)},
              !.blocks = <<>>,
              !.should_stop = TRUE]

(***************************************************************************)
(* statements.cc: do_execute and do_iterate of each statement.             *)
(***************************************************************************)
if_goto_execute(m, st) ==
    LET condition == evaluate(st.condition, m.blocks)
    IN  IF condition.res # "value" THEN Fail(m, condition)
        ELSE IF is_true(condition.value) THEN jump(m, st.then_label)
        ELSE IF st.else_label # "" THEN jump(m, st.else_label)
        ELSE m

\* Variant of if_block_stmt::do_execute: the condition at hand and every one
\* after it are evaluated before a block is chosen.
RECURSIVE if_block_execute_eager(_, _, _)
if_block_execute_eager(m, st, i) ==
    IF i > Len(st.conditions)
    THEN IF Len(st.blocks) = Len(st.conditions) + 1
         THEN enter_block(m, st.blocks[Len(st.blocks)], NullStatement)
         ELSE m
    ELSE IF \E j \in i..Len(st.conditions) : evaluate(st.conditions[j], m.blocks).res # "value"
    THEN Fail(m, evaluate(st.conditions[
                     CHOOSE j \in i..Len(st.conditions) :
                         evaluate(st.conditions[j], m.blocks).res # "value"], m.blocks))
    ELSE IF is_true(evaluate(st.conditions[i], m.blocks).value)
    THEN enter_block(m, st.blocks[i], NullStatement)
    ELSE if_block_execute_eager(m, st, i + 1)

RECURSIVE if_block_execute(_, _, _)
if_block_execute(m, st, i) ==
    IF i > Len(st.conditions)
    THEN IF Len(st.blocks) = Len(st.conditions) + 1
         THEN enter_block(m, st.blocks[Len(st.blocks)], NullStatement)
         ELSE m
    ELSE LET condition == evaluate(st.conditions[i], m.blocks)
         IN  IF condition.res # "value" THEN Fail(m, condition)
             ELSE IF is_true(condition.value)
                  THEN enter_block(m, st.blocks[i], NullStatement)
                  ELSE if_block_execute(m, st, i + 1)

do_iterate(m, this) ==
    LET st == StatementNode(this)
        condition == evaluate(st.condition, m.blocks)
    IN  IF condition.res # "value" THEN Fail(m, condition)
        ELSE IF is_true(condition.value) THEN enter_block(m, st.body, this)
        ELSE m

\* Variant of do_stmt::do_execute: the body is entered before the condition is
\* looked at, as in a loop that tests at its end.
do_execute_untested(m, this) == enter_block(m, StatementNode(this).body, this)

do_execute(m, this) == do_iterate(m, this)

\* Variant of the loop test of for_stmt: the final value is excluded.
for_condition_exclusive(step, value, final_value) ==
    \/ number_greater(step, number_int(0)) /\ number_less(value, final_value)
    \/ number_less(step, number_int(0)) /\ number_greater(value, final_value)

\* Variant of the loop test of for_stmt: a step of zero counts upwards.
for_condition_zero_upwards(step, value, final_value) ==
    \/ number_greater_equal(step, number_int(0)) /\ number_less_equal(value, final_value)
    \/ number_less(step, number_int(0)) /\ number_greater_equal(value, final_value)

\* (step > 0 && value <= final_value) || (step < 0 && value >= final_value)
for_condition(step, value, final_value) ==
    \/ number_greater(step, number_int(0)) /\ number_less_equal(value, final_value)
    \/ number_less(step, number_int(0)) /\ number_greater_equal(value, final_value)

for_execute(m, this) ==
    LET st == StatementNode(this)
        initial == evaluate(st.initial_expression, m.blocks)
    IN  IF initial.res # "value" THEN Fail(m, initial)
        ELSE
        LET m1 == Assigned(set_var_numeric(m, st.variable_name, initial.value),
                           st.variable_name, "numeric_variables", initial.value)
            step == evaluate(st.step_expression, m1.blocks)
        IN  IF step.res # "value" THEN Fail(m1, step)
            ELSE
            LET m2 == [m1 EXCEPT !.scratch[this].step = step.value]
                final == evaluate(st.final_expression, m2.blocks)
            IN  IF final.res # "value" THEN Fail(m2, final)
                ELSE
                LET m3 == [m2 EXCEPT !.scratch[this].final_value = final.value]
                    value == get_var_numeric(m3.blocks, st.variable_name)
                IN  IF value.res # "value" THEN Fail(m3, value)
                    ELSE IF for_condition(step.value, value.value, final.value)
                         THEN enter_block(m3, st.body, this)
                         ELSE m3

\* Variant of for_stmt::do_iterate: the step and the final value are evaluated
\* again at each iteration.
for_iterate_reevaluated(m, this) ==
    LET st == StatementNode(this)
        value == get_var_numeric(m.blocks, st.variable_name)
        step == evaluate(st.step_expression, m.blocks)
        final == evaluate(st.final_expression, m.blocks)
    IN  IF value.res # "value" THEN Fail(m, value)
        ELSE IF step.res # "value" THEN Fail(m, step)
        ELSE IF final.res # "value" THEN Fail(m, final)
        ELSE
        LET iterator_value == number_plus(value.value, step.value)
            m1 == Assigned(set_var_numeric(m, st.variable_name, iterator_value),
                           st.variable_name, "numeric_variables", iterator_value)
        IN  IF m1.status # "running" THEN m1
            ELSE IF for_condition(step.value, iterator_value, final.value)
                 THEN enter_block(m1, st.body, this)
                 ELSE m1

for_iterate(m, this) ==
    LET st == StatementNode(this)
        value == get_var_numeric(m.blocks, st.variable_name)
    IN  IF value.res # "value" THEN Fail(m, value)
        ELSE
        LET iterator_value == number_plus(value.value, m.scratch[this].step)
            m1 == Assigned(set_var_numeric(m, st.variable_name, iterator_value),
                           st.variable_name, "numeric_variables", iterator_value)
        IN  IF m1.status # "running" THEN m1
            ELSE IF for_condition(m.scratch[this].step, iterator_value,
                                  m.scratch[this].final_value)
                 THEN enter_block(m1, st.body, this)
                 ELSE m1

\* Variant of print_stmt::do_execute: a blank is written between two expressions.
RECURSIVE print_execute_separated(_, _, _)
print_execute_separated(m, st, i) ==
    IF i > Len(st.expressions) THEN [m EXCEPT !.output = @ \o "\n"]
    ELSE LET text == get_representation(st.expressions[i], m.blocks)
         IN  IF text.res # "value" THEN Fail(m, text)
             ELSE print_execute_separated(
                      [m EXCEPT !.output = @ \o (IF i > 1 THEN " " ELSE "") \o text.value],
                      st, i + 1)

RECURSIVE print_execute(_, _, _)
print_execute(m, st, i) ==
    IF i > Len(st.expressions) THEN [m EXCEPT !.output = @ \o "\n"]
    ELSE LET text == get_representation(st.expressions[i], m.blocks)
         IN  IF text.res # "value" THEN Fail(m, text)
             ELSE print_execute([m EXCEPT !.output = @ \o text.value], st, i + 1)

\* `line` is what std::getline read: [integer |-> TRUE, value |-> n] when
\* `is >> input` extracts an int from it, [integer |-> FALSE] when it does not.
input_execute(m, st, line) ==
    LET prompted == [m EXCEPT !.output = @ \o "? "]
    IN  IF line.integer
        THEN Assigned(set_var_numeric(prompted, st.var_name, number_int(line.value)),
                      st.var_name, "numeric_variables", number_int(line.value))
        ELSE Raise(prompted, "User input error: expected an integer")

let_execute(m, st) ==
    LET value == evaluate(st.value, m.blocks)
        variables == IF IsStringExpr(st.value) THEN "string_variables"
                     ELSE "numeric_variables"
    IN  IF value.res # "value" THEN Fail(m, value)
        ELSE Assigned(set_var(m, st.var_name, variables, value.value),
                      st.var_name, variables, value.value)

goto_execute(m, st) == jump(m, st.label)

stop_execute(m, st) == stop(m)

exit_execute(m, st) == exit_block_named(m, st.what)

execute(m, this, line) ==
    LET st == StatementNode(this)
    IN  CASE st.node = "if_goto" -> if_goto_execute(m, st)
          [] st.node = "if_block" -> if_block_execute(m, st, 1)
          [] st.node = "do" -> do_execute(m, this)
          [] st.node = "for" -> for_execute(m, this)
          [] st.node = "print" -> print_execute(m, st, 1)
          [] st.node = "input" -> input_execute(m, st, line)
          [] st.node = "let" -> let_execute(m, st)
          [] st.node = "goto" -> goto_execute(m, st)
          [] st.node = "stop" -> stop_execute(m, st)
          [] st.node = "exit" -> exit_execute(m, st)
          [] st.node = "empty" -> m

iterate(m, this) ==
    IF StatementNode(this).node = "do" THEN do_iterate(m, this) ELSE for_iterate(m, this)


(***************************************************************************)
(* lexer.cc: the source is the sequence of the characters not yet read,    *)
(* each a one-character string, with the state of the stream (`good` is    *)
(* false once a get() at the end of the input has failed).  The line and   *)
(* column a lexeme carries only word the error messages and are left out.  *)
(***************************************************************************)
WHITESPACE == {" ", "\t"}

SIMPLE_SYMBOLS == {"+", "-", "*", "/", "&", "=", ":", ",", "(", ")"}

DigitChars == <<"0", "1", "2", "3", "4", "5", "6", "7", "8", "9">>

UpperChars == <<"A", "B", "C", "D", "E", "F", "G", "H", "I", "J", "K", "L", "M",
                "N", "O", "P", "Q", "R", "S", "T", "U", "V", "W", "X", "Y", "Z">>

LowerChars == <<"a", "b", "c", "d", "e", "f", "g", "h", "i", "j", "k", "l", "m",
                "n", "o", "p", "q", "r", "s", "t", "u", "v", "w", "x", "y", "z">>

Range(seq) == {seq[i] : i \in DOMAIN seq}

isdigit(c) == c \in Range(DigitChars)

isalpha(c) == c \in Range(UpperChars) \cup Range(LowerChars)

isalphanum(c) == isalpha(c) \/ isdigit(c) \/ c = "_" \/ c = "$"

\* What peek() gives at the end of the input, and what a failed get() appends.
EndOfFile == "<eof>"

to_lower(c) ==
    IF c \in Range(UpperChars)
    THEN LowerChars[CHOOSE i \in DOMAIN UpperChars : UpperChars[i] = c]
    ELSE c

\* A std::string, from its characters.
RECURSIVE std_string(_)
std_string(chars) ==
    IF chars = <<>> THEN "" ELSE Head(chars) \o std_string(Tail(chars))

\* The characters of a number without its leading zeroes, when another
\* character follows them.
RECURSIVE find_first_not_of_zero(_)
find_first_not_of_zero(value) ==
    IF value = <<>> THEN <<>>
    ELSE IF Head(value) = "0" THEN find_first_not_of_zero(Tail(value))
    ELSE value

NoLexeme == [type |-> "none", value |-> <<>>]

lexeme(type, value) ==
    IF type = "type_word" THEN [type |-> type, value |-> [i \in DOMAIN value |-> to_lower(value[i])]]
    ELSE IF type = "type_number" /\ Len(value) > 1 /\ value[1] = "0"
              /\ find_first_not_of_zero(value) # <<>>
         THEN [type |-> type, value |-> find_first_not_of_zero(value)]
    ELSE [type |-> type, value |-> value]

lexer(text) == [source |-> text, good |-> TRUE]

peek(lx) == IF lx.good /\ lx.source # <<>> THEN Head(lx.source) ELSE EndOfFile

\* source.get(): the character is consumed; at the end of the input the get
\* fails and the stream is no longer good.
get(lx) ==
    IF lx.good /\ lx.source # <<>> THEN [lx EXCEPT !.source = Tail(@)]
    ELSE [lx EXCEPT !.good = FALSE]

RECURSIVE skip_whitespace(_)
skip_whitespace(lx) ==
    IF lx.good /\ peek(lx) \in WHITESPACE THEN skip_whitespace(get(lx)) ELSE lx

\* Whether `pred` holds of character `c`: pred is is_not_digit, is_not_alnum,
\* or the character that extract_until(char what) is to stop at.
Holds(pred, c) ==
    CASE pred = "is_not_digit" -> ~isdigit(c)
      [] pred = "is_not_alnum" -> ~isalphanum(c)
      [] OTHER -> c = pred

RECURSIVE extract_until(_, _, _)
extract_until(lx, pred, result) ==
    IF lx.good /\ ~Holds(pred, peek(lx))
    THEN extract_until(get(lx), pred, Append(result, peek(lx)))
    ELSE [lexer |-> lx, result |-> result]

\* while (source && source.peek() != '\n') source.get();
RECURSIVE ignore_line(_)
ignore_line(lx) ==
    IF lx.good /\ peek(lx) # "\n" THEN ignore_line(get(lx)) ELSE lx

\* Variant of the loop of get_lexeme at a line break: one line break is taken.
discard_one_line(lx) == skip_whitespace(get(lx))

\* The line breaks that follow one another, with the blanks after each.
RECURSIVE discard_blank_lines(_)
discard_blank_lines(lx) ==
    IF peek(lx) = "\n" THEN discard_blank_lines(skip_whitespace(get(lx))) ELSE lx

\* What the same loop adds to the line counter: ++line for each line break it
\* consumes.
RECURSIVE lines_counted(_)
lines_counted(lx) ==
    IF peek(lx) = "\n" THEN 1 + lines_counted(skip_whitespace(get(lx))) ELSE 0

char_code(c) ==
    CASE c = "!" -> "33" [] c = "." -> "46" [] c = ";" -> "59" [] c = "_" -> "95"
      [] c = "$" -> "36" [] c = "'" -> "39" [] OTHER -> "?"

Lexed(lx, lex) == [lexer |-> lx, lexeme |-> lex, error |-> ""]

lexer_error(lx, what) == [lexer |-> lx, lexeme |-> NoLexeme, error |-> what]

\* get_lexeme, the blanks skipped.
get_lexeme_at(lx) ==
    LET next_char == peek(lx)
    IN  CASE ~lx.good \/ next_char = EndOfFile -> Lexed(lx, NoLexeme)
          [] lx.good /\ isdigit(next_char)
               -> LET whole_part == extract_until(lx, "is_not_digit", <<>>)
                      decimal_part == extract_until(get(whole_part.lexer), "is_not_digit", <<>>)
                  IN  IF peek(whole_part.lexer) = "."
                      THEN Lexed(decimal_part.lexer,
                                 lexeme("type_number",
                                        whole_part.result \o <<".">> \o decimal_part.result))
                      ELSE Lexed(whole_part.lexer, lexeme("type_number", whole_part.result))
          [] lx.good /\ next_char = "\""
               -> LET value == extract_until(get(lx), "\"", <<>>)
                  IN  Lexed(get(value.lexer), lexeme("type_string", value.result))
          [] lx.good /\ next_char \in SIMPLE_SYMBOLS
               -> Lexed(get(lx), lexeme("type_symbol", <<next_char>>))
          [] lx.good /\ (next_char = "<" \/ next_char = ">")
               -> LET second_char == peek(get(lx))
                  IN  IF second_char = ">" \/ second_char = "="
                      THEN IF second_char = "=" \/ (next_char = "<" /\ second_char = ">")
                           THEN Lexed(get(get(lx)),
                                      lexeme("type_symbol", <<next_char, second_char>>))
                           ELSE lexer_error(get(get(lx)),
                                            "Invalid operator: " \o next_char \o second_char)
                      ELSE Lexed(get(lx), lexeme("type_symbol", <<next_char>>))
          [] lx.good /\ next_char = "\n"
               -> Lexed(discard_blank_lines(lx), lexeme("type_end", <<>>))
          [] lx.good /\ isalpha(next_char)
               -> LET value == extract_until(lx, "is_not_alnum", <<>>)
                  IN  Lexed(value.lexer, lexeme("type_word", value.result))
          [] OTHER -> lexer_error(lx, "Invalid character at input: '" \o next_char
                                          \o "' (" \o char_code(next_char) \o ")")

get_lexeme(lx) == get_lexeme_at(skip_whitespace(lx))

(***************************************************************************)
(* parser.cc: the parser state is the lexer, the lexeme read ahead         *)
(* (next_symbol) and the statement nodes and block objects built so far; a *)
(* thrown lexer_error or syntax_error is kept in `error` and ends every    *)
(* routine it passes through.  Each routine gives the state it leaves and  *)
(* its result.                                                             *)
(***************************************************************************)
BLOCK_TERMINATORS == {"end", "else", "elseif", "next", "loop"}

\* boost::optional<std::string>(): no value is asked for.
NoValue == "<none>"

NoException == [kind |-> "", what |-> ""]

NullExpr == [node |-> "null"]

Good(p) == p.error = NoException

Returns(p, result) == [p |-> p, result |-> result]

Throws(p, kind, what) ==
    [p |-> IF Good(p) THEN [p EXCEPT !.error = [kind |-> kind, what |-> what]] ELSE p,
     result |-> NoLexeme]

error(p, what) == Throws(p, "syntax_error", what)

to_string(type) ==
    CASE type = "type_end" -> "end of line"
      [] type = "type_number" -> "integral literal"
      [] type = "type_string" -> "string literal"
      [] type = "type_symbol" -> "operator"
      [] type = "type_word" -> "identifier or keyword"

\* next_symbol = lexer.get_lexeme()
set_next_symbol(p, lexed) ==
    IF lexed.error # ""
    THEN Throws([p EXCEPT !.lexer = lexed.lexer], "lexer_error", lexed.error).p
    ELSE [p EXCEPT !.lexer = lexed.lexer, !.next_symbol = lexed.lexeme]

\* The lexer is the one parse() was given: `lexemes` has what its get_lexeme
\* gives in each state it can be in, which is the characters left and the flag.
read_next_symbol(p) ==
    set_next_symbol(p, p.lexemes[Len(p.lexer.source), p.lexer.good])

\* accept(lexer): what was read ahead is the result and the next lexeme is read.
accept(p) ==
    IF Good(p) THEN Returns(read_next_symbol(p), p.next_symbol) ELSE Returns(p, NoLexeme)

Matches(symbol, what, value) ==
    /\ symbol # NoLexeme
    /\ symbol.type = what
    /\ (value = NoValue \/ std_string(symbol.value) = value)

\* accept(lexer, what, value)
accept_if(p, what, value) ==
    IF Good(p) /\ Matches(p.next_symbol, what, value) THEN accept(p) ELSE Returns(p, NoLexeme)

\* The throw of expect: `got` is what accept(lexer) gave.
unexpected(got, type, value) ==
    LET wanted == IF value # NoValue THEN value ELSE to_string(type)
        found == IF got.result = NoLexeme THEN "end of input"
                 ELSE IF value # NoValue THEN std_string(got.result.value)
                 ELSE to_string(got.result.type)
    IN  IF Good(got.p) THEN error(got.p, "Expected " \o wanted \o ", got " \o found)
        ELSE Returns(got.p, NoLexeme)

expect(p, type, value) ==
    IF ~Good(p) THEN Returns(p, NoLexeme)
    ELSE IF Matches(p.next_symbol, type, value) THEN accept(p)
    ELSE unexpected(accept(p), type, value)

Accepted(accepted, op) == [p |-> accepted.p, result |-> accepted.result, op |-> op]

\* if (accept(lexer, what, value)) ... else if (accept(lexer, what, value)) ...:
\* the first of `alternatives`, each <<what, value, op>>, that matches the lexeme
\* read ahead is accepted; `op` is "" when none does.
accept_first(p, alternatives) ==
    LET found == {i \in DOMAIN alternatives :
                     Good(p) /\ Matches(p.next_symbol, alternatives[i][1], alternatives[i][2])}
    IN  IF found = {} THEN Accepted(Returns(p, NoLexeme), "")
        ELSE Accepted(accept(p),
                      alternatives[CHOOSE i \in found : \A j \in found : i <= j][3])

is_string_identifier(identifier) ==
    identifier # <<>> /\ identifier[Len(identifier)] = "$"

\* is >> value, of an int and of a double, from the characters of a number.
RECURSIVE istream_int(_, _)
istream_int(chars, value) ==
    IF chars = <<>> \/ ~isdigit(Head(chars)) THEN value
    ELSE istream_int(Tail(chars),
                     10 * value + (CHOOSE d \in 0..9 : DigitChars[d + 1] = Head(chars)))

RECURSIVE DropDigits(_)
DropDigits(chars) ==
    IF chars = <<>> \/ ~isdigit(Head(chars)) THEN chars ELSE DropDigits(Tail(chars))

istream_double(chars) ==
    LET decimal_part == Tail(DropDigits(chars))
    IN  FracAdd(<<istream_int(chars, 0), 1>>,
                Frac(istream_int(decimal_part, 0), Pow10(Len(decimal_part))))

constant_double_expr(value) == [node |-> "constant", value |-> number_double(value)]

RECURSIVE parse_numeric_expr(_)
RECURSIVE parse_integer_expr(_)
RECURSIVE parse_string_expr(_)
RECURSIVE parse_line(_, _, _)
RECURSIVE parse_block(_, _)
RECURSIVE parse_if(_)
RECURSIVE parse_do(_)
RECURSIVE parse_for(_)

\* A routine's local variables are the parameters of the operators that model
\* what it does once it has them: parse_factor_signed is parse_factor from where
\* it has `sign`, and so on.

\* ( sub_expression ): the closing parenthesis is expected.
parenthesised(sub_expression) ==
    Returns(expect(sub_expression.p, "type_symbol", ")").p, sub_expression.result)

parse_factor_signed(sign, taken) ==
    IF taken.p.error # NoException THEN Returns(taken.p, NullExpr)
    ELSE IF taken.op = "number"
    THEN IF "." \notin Range(taken.result.value)
         THEN Returns(taken.p, constant_expr(sign * istream_int(taken.result.value, 0)))
         ELSE Returns(taken.p,
                      constant_double_expr(FracMul(<<sign, 1>>,
                                                   istream_double(taken.result.value))))
    ELSE IF taken.op = "word"
    THEN IF ~is_string_identifier(taken.result.value)
         THEN IF sign > 0
              THEN Returns(taken.p, variable_expr(std_string(taken.result.value)))
              ELSE Returns(taken.p, arith_expr(constant_expr(0 - 1),
                                               variable_expr(std_string(taken.result.value)),
                                               "times"))
         ELSE error(taken.p, "String identifier in numeric expression")
    ELSE IF taken.op = "("
    THEN parenthesised(parse_numeric_expr(taken.p))
    ELSE IF taken.op = "string"
    THEN error(taken.p, "String literal in numeric expression")
    ELSE error(accept(taken.p).p,
               "Expected an integral constant, a variable name, or an opening parenthesis")

parse_factor(p) ==
    LET minus == accept_if(p, "type_symbol", "-")
    IN  parse_factor_signed(IF minus.result # NoLexeme THEN 0 - 1 ELSE 1,
                            accept_first(minus.p, <<<<"type_number", NoValue, "number">>,
                                                    <<"type_word", NoValue, "word">>,
                                                    <<"type_symbol", "(", "(">>,
                                                    <<"type_string", NoValue, "string">>>>))

\* return ...(new arith_expr(left_side, right_side, op))
arith(left_side, right_side, op) ==
    Returns(right_side.p, arith_expr(left_side.result, right_side.result, op))

\* Variant of parse_term: a term that goes on taking multiplicative operators, as
\* parse_integer_expr does the additive ones, and so accepts a * b * c.
RECURSIVE parse_term_chained(_)
parse_term_chained_right(left_side, taken) ==
    IF left_side.p.error # NoException \/ taken.op = "" THEN left_side
    ELSE arith(left_side, parse_term_chained(taken.p), taken.op)

parse_term_chained_operator(left_side) ==
    parse_term_chained_right(left_side,
                             accept_first(left_side.p, <<<<"type_symbol", "*", "times">>,
                                                         <<"type_symbol", "/", "divides">>,
                                                         <<"type_word", "mod", "modulo">>>>))

parse_term_chained(p) == parse_term_chained_operator(parse_factor(p))

parse_term_right(left_side, taken) ==
    IF left_side.p.error # NoException \/ taken.op = "" THEN left_side
    ELSE arith(left_side, parse_factor(taken.p), taken.op)

parse_term_operator(left_side) ==
    parse_term_right(left_side,
                     accept_first(left_side.p, <<<<"type_symbol", "*", "times">>,
                                                 <<"type_symbol", "/", "divides">>,
                                                 <<"type_word", "mod", "modulo">>>>))

parse_term(p) == parse_term_operator(parse_factor(p))

\* Variant of parse_integer_expr: the chain is grouped from the left, each
\* operator taking the term after it as its right side.
RECURSIVE parse_integer_expr_left_from(_)
parse_integer_expr_left_from(left_side) ==
    LET taken == accept_first(left_side.p, <<<<"type_symbol", "+", "plus">>,
                                            <<"type_symbol", "-", "minus">>>>)
    IN  IF left_side.p.error # NoException \/ taken.op = "" THEN left_side
        ELSE parse_integer_expr_left_from(arith(left_side, parse_term(taken.p), taken.op))

parse_integer_expr_left(p) == parse_integer_expr_left_from(parse_term(p))

parse_integer_expr_right(left_side, taken) ==
    IF left_side.p.error # NoException \/ taken.op = "" THEN left_side
    ELSE arith(left_side, parse_integer_expr(taken.p), taken.op)

parse_integer_expr_operator(left_side) ==
    parse_integer_expr_right(left_side,
                             accept_first(left_side.p, <<<<"type_symbol", "+", "plus">>,
                                                         <<"type_symbol", "-", "minus">>>>))

parse_integer_expr(p) == parse_integer_expr_operator(parse_term(p))

relational(left_side, right_side, op) ==
    Returns(right_side.p, relational_expr(left_side.result, right_side.result, op))

parse_relational_expr_right(left_side, taken) ==
    IF left_side.p.error # NoException \/ taken.op = "" THEN left_side
    ELSE relational(left_side, parse_integer_expr(taken.p), taken.op)

parse_relational_expr_operator(left_side) ==
    parse_relational_expr_right(
        left_side,
        accept_first(left_side.p, <<<<"type_symbol", "=", "equals">>,
                                    <<"type_symbol", "<>", "doesnt_equal">>,
                                    <<"type_symbol", "<", "less_than">>,
                                    <<"type_symbol", "<=", "less_equal">>,
                                    <<"type_symbol", ">", "greater_than">>,
                                    <<"type_symbol", ">=", "greater_equal">>>>))

parse_relational_expr(p) == parse_relational_expr_operator(parse_integer_expr(p))

parse_string_atom_taken(p, taken) ==
    IF taken.op = "string"
    THEN Returns(taken.p, string_literal_expr(std_string(taken.result.value)))
    ELSE IF taken.op = "word"
    THEN IF is_string_identifier(taken.result.value)
         THEN Returns(taken.p, string_variable_expr(std_string(taken.result.value)))
         ELSE error(taken.p, "Expected a string identifier")
    ELSE IF taken.op = "("
    THEN parenthesised(parse_string_expr(taken.p))
    ELSE error(p, "Expected a string literal, string identifier or opening parenthesis")

parse_string_atom(p) ==
    parse_string_atom_taken(p, accept_first(p, <<<<"type_string", NoValue, "string">>,
                                                 <<"type_word", NoValue, "word">>,
                                                 <<"type_symbol", "(", "(">>>>))

string_concat(left_side, right_side) ==
    Returns(right_side.p, string_concat_expr(left_side.result, right_side.result))

parse_string_expr_right(left_side, ampersand) ==
    IF left_side.p.error # NoException THEN left_side
    ELSE IF ampersand.result # NoLexeme
    THEN string_concat(left_side, parse_string_expr(ampersand.p))
    ELSE IF ampersand.p.error # NoException THEN Returns(ampersand.p, NullExpr)
    ELSE left_side

parse_string_expr_operator(left_side) ==
    parse_string_expr_right(left_side, accept_if(left_side.p, "type_symbol", "&"))

parse_string_expr(p) == parse_string_expr_operator(parse_string_atom(p))

negation(left_side) == Returns(left_side.p, boolean_expr(left_side.result, NullExpr, "not"))

boolean(left_side, right_side, op) ==
    Returns(right_side.p, boolean_expr(left_side.result, right_side.result, op))

parse_numeric_expr_right(left_side, taken) ==
    IF left_side.p.error # NoException \/ taken.op = "" THEN left_side
    ELSE boolean(left_side, parse_integer_expr(taken.p), taken.op)

parse_numeric_expr_operator(left_side) ==
    parse_numeric_expr_right(left_side,
                             accept_first(left_side.p, <<<<"type_word", "and", "and">>,
                                                         <<"type_word", "or", "or">>>>))

parse_numeric_expr_negated(p, not) ==
    IF not.p.error # NoException THEN Returns(not.p, NullExpr)
    ELSE IF not.result # NoLexeme THEN negation(parse_numeric_expr(not.p))
    ELSE parse_numeric_expr_operator(parse_relational_expr(p))

parse_numeric_expr(p) == parse_numeric_expr_negated(p, accept_if(p, "type_word", "not"))

parse_expression(p) ==
    IF ~Good(p) THEN Returns(p, NullExpr)
    ELSE IF \/ Matches(p.next_symbol, "type_string", NoValue)
       \/ (Matches(p.next_symbol, "type_word", NoValue)
           /\ is_string_identifier(p.next_symbol.value))
    THEN parse_string_expr(p)
    ELSE parse_numeric_expr(p)

\* A statement node is made: `this` is its place in the table of nodes, taken
\* when its keyword is read, so that the nodes stand in the order of the text.
NewStatement(p) == [p EXCEPT !.stmts = Append(@, empty_stmt)]

\* A block object is made, likewise.
NewBlock(p) == [p EXCEPT !.blocks = Append(@, block_copy(<<>>, NoLabels))]

\* The do ... while (accept(lexer, lexeme::type_symbol, ",")) of parse_print.
RECURSIVE expressions_from(_, _)
expressions_more(expressions, expression) ==
    IF expression.p.error # NoException
    THEN Returns(expression.p, Append(expressions, expression.result))
    ELSE LET comma == accept_if(expression.p, "type_symbol", ",")
         IN  IF Good(comma.p) /\ comma.result # NoLexeme
             THEN expressions_from(comma.p, Append(expressions, expression.result))
             ELSE Returns(comma.p, Append(expressions, expression.result))

expressions_from(p, expressions) == expressions_more(expressions, parse_expression(p))

print(expressions) == Returns(expressions.p, print_stmt(expressions.result))

parse_print(p) ==
    IF p.next_symbol # NoLexeme /\ p.next_symbol.type # "type_end"
    THEN print(expressions_from(p, <<>>))
    ELSE print(Returns(p, <<>>))

input(var_name) == Returns(var_name.p, input_stmt(std_string(var_name.result.value)))

parse_input(p) == input(expect(p, "type_word", NoValue))

let(var_name, value) ==
    Returns(value.p, let_stmt(std_string(var_name.result.value), value.result))

parse_let_value(var_name) ==
    IF ~is_string_identifier(var_name.result.value)
    THEN let(var_name, parse_numeric_expr(expect(var_name.p, "type_symbol", "=").p))
    ELSE let(var_name, parse_string_expr(expect(var_name.p, "type_symbol", "=").p))

parse_let(p) == parse_let_value(expect(p, "type_word", NoValue))

goto(p, label) ==
    IF label.op # "" THEN Returns(label.p, goto_stmt(std_string(label.result.value)))
    ELSE error(p, "Expected a label")

parse_goto(p) ==
    goto(p, accept_first(p, <<<<"type_word", NoValue, "word">>,
                              <<"type_number", NoValue, "number">>>>))

parse_stop(p) == Returns(p, stop_stmt)

exit(what) == Returns(what.p, exit_stmt(std_string(what.result.value)))

parse_exit(p) == exit(expect(p, "type_word", NoValue))

\* The block object a statement node keeps of the block parse_block returned.
KeepBlock(p, parsed) ==
    [p EXCEPT !.blocks[parsed.id] = block_copy(parsed.statements, parsed.labels)]

\* Variant of parse_do: whatever ended the body closes the DO.
parse_do_closed_by_any(p) ==
    LET condition == parse_numeric_expr(expect(p, "type_word", "while").p)
        body == parse_block(condition.p, "")
    IN  IF body.p.error # NoException THEN Returns(body.p, empty_stmt)
        ELSE Returns(KeepBlock(body.p, body.result),
                     do_stmt(condition.result, body.result.id))

parse_do_loop(condition, body) ==
    IF body.p.error # NoException THEN Returns(body.p, empty_stmt)
    ELSE IF body.result.terminating_keyword # "loop"
    THEN error(body.p, "Expected LOOP, got " \o body.result.terminating_keyword)
    ELSE Returns(KeepBlock(body.p, body.result), do_stmt(condition.result, body.result.id))

parse_do_body(condition) == parse_do_loop(condition, parse_block(condition.p, ""))

parse_do(p) == parse_do_body(parse_numeric_expr(expect(p, "type_word", "while").p))

parse_for_next(variable_name, initial_value, final_value, step_value, body) ==
    IF body.p.error # NoException THEN Returns(body.p, empty_stmt)
    ELSE IF body.result.terminating_keyword = "next"
    THEN Returns(KeepBlock(expect(body.p, "type_word", variable_name).p, body.result),
                 for_stmt(variable_name, initial_value.result, final_value.result,
                          step_value.result, body.result.id))
    ELSE error(body.p, "Expected NEXT " \o variable_name
                           \o ", got " \o body.result.terminating_keyword)

parse_for_body(variable_name, initial_value, final_value, step_value) ==
    parse_for_next(variable_name, initial_value, final_value, step_value,
                   parse_block(step_value.p, ""))

parse_for_step(variable_name, initial_value, final_value, step) ==
    IF step.result # NoLexeme
    THEN parse_for_body(variable_name, initial_value, final_value,
                        parse_numeric_expr(step.p))
    ELSE parse_for_body(variable_name, initial_value, final_value,
                        Returns(step.p, constant_expr(1)))

parse_for_final(variable_name, initial_value, final_value) ==
    parse_for_step(variable_name, initial_value, final_value,
                   accept_if(final_value.p, "type_word", "step"))

parse_for_to(variable_name, initial_value) ==
    parse_for_final(variable_name, initial_value,
                    parse_numeric_expr(expect(initial_value.p, "type_word", "to").p))

parse_for_initial(variable) ==
    parse_for_to(std_string(variable.result.value),
                 parse_numeric_expr(expect(variable.p, "type_symbol", "=").p))

parse_for(p) == parse_for_initial(expect(p, "type_word", NoValue))

\* The do ... while (keyword != "end") of parse_if.
RECURSIVE parse_if_clauses(_, _, _)
parse_if_elseif(conditions, clauses, condition, end) ==
    IF end.p.error # NoException THEN Returns(end.p, empty_stmt)
    ELSE parse_if_clauses(end.p, Append(conditions, condition.result), clauses)

parse_if_condition(conditions, clauses, condition) ==
    parse_if_elseif(conditions, clauses, condition,
                    expect(expect(condition.p, "type_word", "then").p, "type_end", NoValue))

parse_if_clause(conditions, clauses, clause, kept) ==
    IF clause.p.error # NoException THEN Returns(clause.p, empty_stmt)
    ELSE IF clause.result.terminating_keyword = "elseif"
    THEN parse_if_condition(conditions, Append(clauses, clause.result.id),
                            parse_numeric_expr(kept))
    ELSE IF clause.result.terminating_keyword = "else"
    THEN parse_if_clauses(kept, conditions, Append(clauses, clause.result.id))
    ELSE IF clause.result.terminating_keyword = "end"
    THEN Returns(expect(kept, "type_word", "if").p,
                 if_block_stmt(conditions, Append(clauses, clause.result.id)))
    ELSE error(kept, "Unexpected "
                     \o (IF clause.result.terminating_keyword # ""
                         THEN "keyword " \o clause.result.terminating_keyword
                         ELSE "end of input")
                     \o ", expected ELSE, ELSEIF or END IF")

parse_if_kept(conditions, clauses, clause) ==
    parse_if_clause(conditions, clauses, clause, KeepBlock(clause.p, clause.result))

parse_if_clauses(p, conditions, clauses) ==
    parse_if_kept(conditions, clauses, parse_block(p, "if"))

if_goto(condition, then_label, label) ==
    Returns(label.p, if_goto_stmt(condition.result, then_label, std_string(label.result.value)))

parse_if_else(condition, then_label, else) ==
    IF else.result = NoLexeme
    THEN Returns(else.p, if_goto_stmt(condition.result, then_label, ""))
    ELSE IF Matches(else.p.next_symbol, "type_number", NoValue)
    THEN if_goto(condition, then_label, accept(else.p))
    ELSE if_goto(condition, then_label, expect(else.p, "type_word", NoValue))

parse_if_label(condition, then, label) ==
    CASE then.p.error # NoException -> Returns(then.p, empty_stmt)
      [] then.p.error = NoException /\ label.op # ""
           -> parse_if_else(condition, std_string(label.result.value),
                            accept_if(label.p, "type_word", "else"))
      [] /\ then.p.error = NoException /\ label.op = ""
         /\ Matches(then.p.next_symbol, "type_end", NoValue)
           -> parse_if_clauses(accept(then.p).p, <<condition.result>>, <<>>)
      [] OTHER -> error(then.p, "Expected a label or newline after THEN")

parse_if_then(condition, then) ==
    parse_if_label(condition, then,
                   accept_first(then.p, <<<<"type_number", NoValue, "number">>,
                                          <<"type_word", NoValue, "word">>>>))

parse_if_condition_read(condition) ==
    parse_if_then(condition, expect(condition.p, "type_word", "then"))

parse_if(p) == parse_if_condition_read(parse_numeric_expr(p))

parsers_map ==
    {"if", "do", "for", "print", "input", "let", "goto", "stop", "exit"}

\* (parser->second)(lexer)
parse_statement(keyword, p) ==
    CASE keyword = "if" -> parse_if(p)
      [] keyword = "do" -> parse_do(p)
      [] keyword = "for" -> parse_for(p)
      [] keyword = "print" -> parse_print(p)
      [] keyword = "input" -> parse_input(p)
      [] keyword = "let" -> parse_let(p)
      [] keyword = "goto" -> parse_goto(p)
      [] keyword = "stop" -> parse_stop(p)
      [] keyword = "exit" -> parse_exit(p)

Line(label, statement, terminating_keyword) ==
    [label |-> label, statement |-> statement, terminating_keyword |-> terminating_keyword]

\* while (next_symbol && next_symbol->type == lexeme::type_end) accept(lexer);
RECURSIVE accept_line_ends(_)
accept_line_ends(p) ==
    IF Good(p) /\ Matches(p.next_symbol, "type_end", NoValue)
    THEN accept_line_ends(accept(p).p) ELSE p

\* result.statement = (parser->second)(lexer); expect(lexer, lexeme::type_end);
parse_line_statement(label, this, statement, terminating_keyword) ==
    IF statement.p.error # NoException
    THEN Returns([statement.p EXCEPT !.stmts[this] = statement.result],
                 Line(label, this, terminating_keyword))
    ELSE Returns(expect([statement.p EXCEPT !.stmts[this] = statement.result],
                        "type_end", NoValue).p,
                 Line(label, this, terminating_keyword))

\* This must be an empty line.
parse_line_empty(label, made, terminating_keyword) ==
    Returns(made, Line(label, Len(made.stmts), terminating_keyword))

\* `symbol` is the keyword of the line and `label` is result.label, which a
\* comment line leaves as it is when the routine starts again at do_parse.
parse_line_keyword(label, symbol, keyword, terminating_keyword) ==
    CASE symbol.p.error # NoException
           -> Returns(symbol.p, Line(label, NullStatement, terminating_keyword))
      [] symbol.p.error = NoException /\ keyword = "rem"
           -> \* It's a comment: the line is ignored and the next one parsed.
              parse_line(read_next_symbol([symbol.p EXCEPT !.lexer = ignore_line(@)]),
                         label, terminating_keyword)
      [] symbol.p.error = NoException /\ keyword \in parsers_map
           -> parse_line_statement(label, Len(symbol.p.stmts) + 1,
                                   parse_statement(keyword, NewStatement(symbol.p)),
                                   terminating_keyword)
      [] symbol.p.error = NoException /\ keyword \in BLOCK_TERMINATORS
           -> Returns(symbol.p, Line(label, NullStatement, keyword))
      [] OTHER -> error(symbol.p, "Unrecognised keyword: " \o keyword)

parse_line_labelled(label, symbol, terminating_keyword) ==
    parse_line_keyword(label, symbol, std_string(symbol.result.value), terminating_keyword)

parse_line_first(label, first, terminating_keyword) ==
    CASE first.p.error # NoException
           -> Returns(first.p, Line(label, NullStatement, terminating_keyword))
      [] first.p.error = NoException /\ first.result = NoLexeme
           -> parse_line_empty(label, NewStatement(expect(first.p, "type_end", NoValue).p),
                               terminating_keyword)
      [] /\ first.p.error = NoException /\ first.result # NoLexeme
         /\ std_string(first.result.value) # "rem"
         /\ Matches(first.p.next_symbol, "type_symbol", ":")
           -> parse_line_labelled(std_string(first.result.value),
                                  expect(accept_line_ends(accept(first.p).p),
                                         "type_word", NoValue),
                                  terminating_keyword)
      [] OTHER -> parse_line_labelled(label, first, terminating_keyword)

parse_line_numbered(label, number, terminating_keyword) ==
    parse_line_first(IF number.result # NoLexeme THEN std_string(number.result.value)
                     ELSE label,
                     accept_if(number.p, "type_word", NoValue), terminating_keyword)

parse_line(p, label, terminating_keyword) ==
    parse_line_numbered(label, accept_if(p, "type_number", NoValue), terminating_keyword)

\* The result of parse_block: the statements, the positions its jump table gives
\* the labels, and the keyword that ended the block ("" at the end of the input).
Block(id, statements, labels, terminating_keyword) ==
    [id |-> id, statements |-> statements, labels |-> labels,
     terminating_keyword |-> terminating_keyword]

RECURSIVE parse_block_lines(_, _, _, _, _)
parse_block_line(id, statements, labels, terminating_keyword, l) ==
    CASE l.p.error # NoException
           -> Returns(l.p, Block(id, statements, labels, terminating_keyword))
      [] l.p.error = NoException /\ l.result.statement = NullStatement
           -> Returns(l.p, Block(id, statements, labels, l.result.terminating_keyword))
      [] OTHER
           -> parse_block_lines(l.p, id, Append(statements, l.result.statement),
                                IF l.result.label # ""
                                THEN labels @@ (l.result.label :> Len(statements) + 1)
                                ELSE labels,
                                l.result.terminating_keyword)

parse_block_lines(p, id, statements, labels, terminating_keyword) ==
    CASE ~Good(p) -> Returns(p, Block(id, statements, labels, terminating_keyword))
      [] Good(p) /\ p.next_symbol = NoLexeme -> Returns(p, Block(id, statements, labels, ""))
      [] OTHER -> parse_block_line(id, statements, labels, terminating_keyword,
                                   parse_line(p, "", terminating_keyword))

parse_block(p, terminating_keyword) ==
    parse_block_lines(NewBlock(p), Len(p.blocks) + 1, <<>>, NoLabels, terminating_keyword)

\* What main() has when parse() returned or threw: the exception, if any, and the
\* tree.  The block parse() returns is the one parse_block built.
parse_returns(b) ==
    IF b.p.error # NoException THEN b.p
    ELSE IF /\ b.result.terminating_keyword # ""
            /\ (b.result.terminating_keyword # "end" \/ b.p.next_symbol # NoLexeme)
    THEN error([b.p EXCEPT !.blocks[1] = block(1, b.result.statements, b.result.labels)],
               "Unexpected " \o b.result.terminating_keyword
                   \o ", expected END or end-of-file").p
    ELSE [b.p EXCEPT !.blocks[1] = block(1, b.result.statements, b.result.labels)]

parse(text) ==
    parse_returns(parse_block(read_next_symbol(
        [lexer |-> lexer(text),
         lexemes |-> [left \in 0..Len(text), good \in BOOLEAN |->
                         get_lexeme([source |-> SubSeq(text, Len(text) - left + 1, Len(text)),
                                     good |-> good])],
         next_symbol |-> NoLexeme,
         stmts |-> <<>>, blocks |-> <<>>,
         error |-> NoException]), ""))

(***************************************************************************)
(* The programs run, each as parse() builds it from the text shown: the    *)
(* body of a DO or FOR and of an ELSE clause starts with the empty         *)
(* statement of the line break that follows its header.                    *)
(***************************************************************************)
\*   (an empty file)
EmptyProgram ==
    [stmts |-> <<>>,
     blocks |-> <<block(1, <<>>, NoLabels)>>]

\*   PRINT "hello"
Hello ==
    [stmts |-> <<print_stmt(<<string_literal_expr("hello")>>)>>,
     blocks |-> <<block(1, <<1>>, NoLabels)>>]

\*   PRINT 1
\*   STOP
\*   PRINT 2
StopAtRoot ==
    [stmts |-> <<print_stmt(<<constant_expr(1)>>),
                 stop_stmt,
                 print_stmt(<<constant_expr(2)>>)>>,
     blocks |-> <<block(1, <<1, 2, 3>>, NoLabels)>>]

\*   LET X = 1
\*   IF X = 1 THEN
\*   STOP
\*   END IF
\*   PRINT 2
StopInIf ==
    [stmts |-> <<let_stmt("x", constant_expr(1)),
                 if_block_stmt(<<relational_expr(variable_expr("x"), constant_expr(1), "equals")>>, <<2>>),
                 stop_stmt,
                 print_stmt(<<constant_expr(2)>>)>>,
     blocks |-> <<block(1, <<1, 2, 4>>, NoLabels),
                  block_copy(<<3>>, NoLabels)>>]

\*   LET X = 0
\*   DO WHILE X < 3
\*   PRINT X
\*   STOP
\*   LOOP
\*   PRINT 2
StopInDo ==
    [stmts |-> <<let_stmt("x", constant_expr(0)),
                 do_stmt(relational_expr(variable_expr("x"), constant_expr(3), "less_than"), 2),
                 empty_stmt,
                 print_stmt(<<variable_expr("x")>>),
                 stop_stmt,
                 print_stmt(<<constant_expr(2)>>)>>,
     blocks |-> <<block(1, <<1, 2, 6>>, NoLabels),
                  block_copy(<<3, 4, 5>>, NoLabels)>>]

\*   DO WHILE 1
\*   STOP
\*   PRINT 1
\*   LOOP
StopInDoForever ==
    [stmts |-> <<do_stmt(constant_expr(1), 2),
                 empty_stmt,
                 stop_stmt,
                 print_stmt(<<constant_expr(1)>>)>>,
     blocks |-> <<block(1, <<1>>, NoLabels),
                  block_copy(<<2, 3, 4>>, NoLabels)>>]

\*   FOR I = 1 TO 3
\*   PRINT I
\*   STOP
\*   NEXT I
\*   PRINT 2
StopInFor ==
    [stmts |-> <<for_stmt("i", constant_expr(1), constant_expr(3), constant_expr(1), 2),
                 empty_stmt,
                 print_stmt(<<variable_expr("i")>>),
                 stop_stmt,
                 print_stmt(<<constant_expr(2)>>)>>,
     blocks |-> <<block(1, <<1, 5>>, NoLabels),
                  block_copy(<<2, 3, 4>>, NoLabels)>>]

\*   DO WHILE 1
\*   IF 1 THEN
\*   STOP
\*   END IF
\*   PRINT 1
\*   LOOP
StopInIfInDo ==
    [stmts |-> <<do_stmt(constant_expr(1), 2),
                 empty_stmt,
                 if_block_stmt(<<constant_expr(1)>>, <<3>>),
                 stop_stmt,
                 print_stmt(<<constant_expr(1)>>)>>,
     blocks |-> <<block(1, <<1>>, NoLabels),
                  block_copy(<<2, 3, 5>>, NoLabels),
                  block_copy(<<4>>, NoLabels)>>]

\*   10 PRINT "a"
\*   GOTO 30
\*   20 PRINT "b"
\*   30 PRINT "c"
GotoForward ==
    [stmts |-> <<print_stmt(<<string_literal_expr("a")>>),
                 goto_stmt("30"),
                 print_stmt(<<string_literal_expr("b")>>),
                 print_stmt(<<string_literal_expr("c")>>)>>,
     blocks |-> <<block(1, <<1, 2, 3, 4>>, ("10" :> 1) @@ ("20" :> 3) @@ ("30" :> 4))>>]

\*   LET X = 0
\*   10 LET X = X + 1
\*   IF X < 3 THEN 10
\*   PRINT X
GotoBackward ==
    [stmts |-> <<let_stmt("x", constant_expr(0)),
                 let_stmt("x", arith_expr(variable_expr("x"), constant_expr(1), "plus")),
                 if_goto_stmt(relational_expr(variable_expr("x"), constant_expr(3), "less_than"), "10", ""),
                 print_stmt(<<variable_expr("x")>>)>>,
     blocks |-> <<block(1, <<1, 2, 3, 4>>, ("10" :> 2))>>]

\*   LET X = 0
\*   IF X THEN yes ELSE no
\*   yes: PRINT "y"
\*   no: PRINT "n"
IfGotoElse ==
    [stmts |-> <<let_stmt("x", constant_expr(0)),
                 if_goto_stmt(variable_expr("x"), "yes", "no"),
                 print_stmt(<<string_literal_expr("y")>>),
                 print_stmt(<<string_literal_expr("n")>>)>>,
     blocks |-> <<block(1, <<1, 2, 3, 4>>, ("yes" :> 3) @@ ("no" :> 4))>>]

\*   FOR I = 1 TO 3
\*   LET T = I
\*   IF I = 2 THEN done
\*   PRINT I
\*   NEXT I
\*   done: PRINT "d"
GotoOutOfFor ==
    [stmts |-> <<for_stmt("i", constant_expr(1), constant_expr(3), constant_expr(1), 2),
                 empty_stmt,
                 let_stmt("t", variable_expr("i")),
                 if_goto_stmt(relational_expr(variable_expr("i"), constant_expr(2), "equals"), "done", ""),
                 print_stmt(<<variable_expr("i")>>),
                 print_stmt(<<string_literal_expr("d")>>)>>,
     blocks |-> <<block(1, <<1, 6>>, ("done" :> 2)),
                  block_copy(<<2, 3, 4, 5>>, NoLabels)>>]

\*   DO WHILE 1
\*   IF 1 THEN
\*   GOTO out
\*   END IF
\*   LOOP
\*   out: PRINT "o"
GotoOutOfNested ==
    [stmts |-> <<do_stmt(constant_expr(1), 2),
                 empty_stmt,
                 if_block_stmt(<<constant_expr(1)>>, <<3>>),
                 goto_stmt("out"),
                 print_stmt(<<string_literal_expr("o")>>)>>,
     blocks |-> <<block(1, <<1, 5>>, ("out" :> 2)),
                  block_copy(<<2, 3>>, NoLabels),
                  block_copy(<<4>>, NoLabels)>>]

\*   LET X = 0
\*   DO WHILE X < 2
\*   again: LET X = X + 1
\*   IF X < 2 THEN again
\*   LOOP
\*   PRINT X
GotoInsideDo ==
    [stmts |-> <<let_stmt("x", constant_expr(0)),
                 do_stmt(relational_expr(variable_expr("x"), constant_expr(2), "less_than"), 2),
                 empty_stmt,
                 let_stmt("x", arith_expr(variable_expr("x"), constant_expr(1), "plus")),
                 if_goto_stmt(relational_expr(variable_expr("x"), constant_expr(2), "less_than"), "again", ""),
                 print_stmt(<<variable_expr("x")>>)>>,
     blocks |-> <<block(1, <<1, 2, 6>>, NoLabels),
                  block_copy(<<3, 4, 5>>, ("again" :> 2))>>]

\*   IF 1 THEN
\*   GOTO skip
\*   PRINT "a"
\*   skip: PRINT "b"
\*   END IF
GotoInsideIf ==
    [stmts |-> <<if_block_stmt(<<constant_expr(1)>>, <<2>>),
                 goto_stmt("skip"),
                 print_stmt(<<string_literal_expr("a")>>),
                 print_stmt(<<string_literal_expr("b")>>)>>,
     blocks |-> <<block(1, <<1>>, NoLabels),
                  block_copy(<<2, 3, 4>>, ("skip" :> 3))>>]

\*   LET C = 0
\*   top: FOR I = 1 TO 3
\*   LET C = C + 1
\*   IF C < 3 THEN top
\*   NEXT I
\*   PRINT C
GotoRestartsFor ==
    [stmts |-> <<let_stmt("c", constant_expr(0)),
                 for_stmt("i", constant_expr(1), constant_expr(3), constant_expr(1), 2),
                 empty_stmt,
                 let_stmt("c", arith_expr(variable_expr("c"), constant_expr(1), "plus")),
                 if_goto_stmt(relational_expr(variable_expr("c"), constant_expr(3), "less_than"), "top", ""),
                 print_stmt(<<variable_expr("c")>>)>>,
     blocks |-> <<block(1, <<1, 2, 6>>, ("top" :> 2)),
                  block_copy(<<3, 4, 5>>, NoLabels)>>]

\*   PRINT "a"
\*   GOTO nowhere
\*   PRINT "b"
GotoUndefined ==
    [stmts |-> <<print_stmt(<<string_literal_expr("a")>>),
                 goto_stmt("nowhere"),
                 print_stmt(<<string_literal_expr("b")>>)>>,
     blocks |-> <<block(1, <<1, 2, 3>>, NoLabels)>>]

\*   LET X = 0
\*   DO WHILE 1
\*   LET X = X + 1
\*   IF X >= 3 THEN
\*   EXIT DO
\*   END IF
\*   LOOP
\*   PRINT X
ExitDoFromIf ==
    [stmts |-> <<let_stmt("x", constant_expr(0)),
                 do_stmt(constant_expr(1), 2),
                 empty_stmt,
                 let_stmt("x", arith_expr(variable_expr("x"), constant_expr(1), "plus")),
                 if_block_stmt(<<relational_expr(variable_expr("x"), constant_expr(3), "greater_equal")>>, <<3>>),
                 exit_stmt("do"),
                 print_stmt(<<variable_expr("x")>>)>>,
     blocks |-> <<block(1, <<1, 2, 7>>, NoLabels),
                  block_copy(<<3, 4, 5>>, NoLabels),
                  block_copy(<<6>>, NoLabels)>>]

\*   FOR I = 1 TO 5
\*   PRINT I
\*   EXIT FOR
\*   NEXT I
\*   PRINT "x"
ExitForDirect ==
    [stmts |-> <<for_stmt("i", constant_expr(1), constant_expr(5), constant_expr(1), 2),
                 empty_stmt,
                 print_stmt(<<variable_expr("i")>>),
                 exit_stmt("for"),
                 print_stmt(<<string_literal_expr("x")>>)>>,
     blocks |-> <<block(1, <<1, 5>>, NoLabels),
                  block_copy(<<2, 3, 4>>, NoLabels)>>]

\*   FOR I = 1 TO 2
\*   LET A = I
\*   DO WHILE 1
\*   LET B = 1
\*   EXIT FOR
\*   LOOP
\*   PRINT "no"
\*   NEXT I
\*   PRINT I
ExitOuterFor ==
    [stmts |-> <<for_stmt("i", constant_expr(1), constant_expr(2), constant_expr(1), 2),
                 empty_stmt,
                 let_stmt("a", variable_expr("i")),
                 do_stmt(constant_expr(1), 3),
                 empty_stmt,
                 let_stmt("b", constant_expr(1)),
                 exit_stmt("for"),
                 print_stmt(<<string_literal_expr("no")>>),
                 print_stmt(<<variable_expr("i")>>)>>,
     blocks |-> <<block(1, <<1, 9>>, NoLabels),
                  block_copy(<<2, 3, 4, 8>>, NoLabels),
                  block_copy(<<5, 6, 7>>, NoLabels)>>]

\*   FOR I = 1 TO 2
\*   LET A = I
\*   FOR J = 1 TO 2
\*   EXIT FOR
\*   NEXT J
\*   PRINT A, J
\*   NEXT I
ExitInnerFor ==
    [stmts |-> <<for_stmt("i", constant_expr(1), constant_expr(2), constant_expr(1), 2),
                 empty_stmt,
                 let_stmt("a", variable_expr("i")),
                 for_stmt("j", constant_expr(1), constant_expr(2), constant_expr(1), 3),
                 empty_stmt,
                 exit_stmt("for"),
                 print_stmt(<<variable_expr("a"), variable_expr("j")>>)>>,
     blocks |-> <<block(1, <<1>>, NoLabels),
                  block_copy(<<2, 3, 4, 7>>, NoLabels),
                  block_copy(<<5, 6>>, NoLabels)>>]

\*   DO WHILE 1
\*   EXIT FOR
\*   LOOP
\*   PRINT "x"
ExitNoSuchBlock ==
    [stmts |-> <<do_stmt(constant_expr(1), 2),
                 empty_stmt,
                 exit_stmt("for"),
                 print_stmt(<<string_literal_expr("x")>>)>>,
     blocks |-> <<block(1, <<1, 4>>, NoLabels),
                  block_copy(<<2, 3>>, NoLabels)>>]

\*   LET C = 0
\*   DO WHILE C < 2
\*   LET C = C + 1
\*   IF C = 2 THEN
\*   PRINT Y
\*   END IF
\*   LET Y = 1
\*   LOOP
ScopeDo ==
    [stmts |-> <<let_stmt("c", constant_expr(0)),
                 do_stmt(relational_expr(variable_expr("c"), constant_expr(2), "less_than"), 2),
                 empty_stmt,
                 let_stmt("c", arith_expr(variable_expr("c"), constant_expr(1), "plus")),
                 if_block_stmt(<<relational_expr(variable_expr("c"), constant_expr(2), "equals")>>, <<3>>),
                 print_stmt(<<variable_expr("y")>>),
                 let_stmt("y", constant_expr(1))>>,
     blocks |-> <<block(1, <<1, 2>>, NoLabels),
                  block_copy(<<3, 4, 5, 7>>, NoLabels),
                  block_copy(<<6>>, NoLabels)>>]

\*   FOR I = 1 TO 2
\*   IF I = 2 THEN
\*   PRINT T$
\*   END IF
\*   LET T$ = "a"
\*   NEXT I
ScopeFor ==
    [stmts |-> <<for_stmt("i", constant_expr(1), constant_expr(2), constant_expr(1), 2),
                 empty_stmt,
                 if_block_stmt(<<relational_expr(variable_expr("i"), constant_expr(2), "equals")>>, <<3>>),
                 print_stmt(<<string_variable_expr("t$")>>),
                 let_stmt("t$", string_literal_expr("a"))>>,
     blocks |-> <<block(1, <<1>>, NoLabels),
                  block_copy(<<2, 3, 5>>, NoLabels),
                  block_copy(<<4>>, NoLabels)>>]

\*   LET X = 1
\*   IF X = 0 THEN
\*   PRINT "no"
\*   ELSE
\*   LET Z = 5
\*   LET X = 2
\*   LET X$ = "s"
\*   END IF
\*   PRINT X
\*   PRINT Z
ScopeIf ==
    [stmts |-> <<let_stmt("x", constant_expr(1)),
                 if_block_stmt(<<relational_expr(variable_expr("x"), constant_expr(0), "equals")>>, <<2, 3>>),
                 print_stmt(<<string_literal_expr("no")>>),
                 empty_stmt,
                 let_stmt("z", constant_expr(5)),
                 let_stmt("x", constant_expr(2)),
                 let_stmt("x$", string_literal_expr("s")),
                 print_stmt(<<variable_expr("x")>>),
                 print_stmt(<<variable_expr("z")>>)>>,
     blocks |-> <<block(1, <<1, 2, 8, 9>>, NoLabels),
                  block_copy(<<3>>, NoLabels),
                  block_copy(<<4, 5, 6, 7>>, NoLabels)>>]

\*   DO WHILE 1
\*   LET W = 1
\*   EXIT DO
\*   LOOP
\*   PRINT W
ScopeExit ==
    [stmts |-> <<do_stmt(constant_expr(1), 2),
                 empty_stmt,
                 let_stmt("w", constant_expr(1)),
                 exit_stmt("do"),
                 print_stmt(<<variable_expr("w")>>)>>,
     blocks |-> <<block(1, <<1, 5>>, NoLabels),
                  block_copy(<<2, 3, 4>>, NoLabels)>>]

\*   LET N$ = "world"
\*   LET N = 1
\*   IF N THEN
\*   LET N$ = "all"
\*   END IF
\*   PRINT "hello " & N$, N
Strings ==
    [stmts |-> <<let_stmt("n$", string_literal_expr("world")),
                 let_stmt("n", constant_expr(1)),
                 if_block_stmt(<<variable_expr("n")>>, <<2>>),
                 let_stmt("n$", string_literal_expr("all")),
                 print_stmt(<<string_concat_expr(string_literal_expr("hello "), string_variable_expr("n$")), variable_expr("n")>>)>>,
     blocks |-> <<block(1, <<1, 2, 3, 5>>, NoLabels),
                  block_copy(<<4>>, NoLabels)>>]

\*   LET X = 2
\*   LET Y = X + 1
\*   DO WHILE Y < 5
\*   LET Y = Y + 1
\*   IF Y = 4 THEN
\*   LET Q = 0
\*   PRINT X, Y
\*   END IF
\*   LOOP
\*   PRINT X
LetThenRead ==
    [stmts |-> <<let_stmt("x", constant_expr(2)),
                 let_stmt("y", arith_expr(variable_expr("x"), constant_expr(1), "plus")),
                 do_stmt(relational_expr(variable_expr("y"), constant_expr(5), "less_than"), 2),
                 empty_stmt,
                 let_stmt("y", arith_expr(variable_expr("y"), constant_expr(1), "plus")),
                 if_block_stmt(<<relational_expr(variable_expr("y"), constant_expr(4), "equals")>>, <<3>>),
                 let_stmt("q", constant_expr(0)),
                 print_stmt(<<variable_expr("x"), variable_expr("y")>>),
                 print_stmt(<<variable_expr("x")>>)>>,
     blocks |-> <<block(1, <<1, 2, 3, 9>>, NoLabels),
                  block_copy(<<4, 5, 6>>, NoLabels),
                  block_copy(<<7, 8>>, NoLabels)>>]

\*   LET X = 1
\*   PRINT "a", Q
\*   PRINT "b"
ReadUndefined ==
    [stmts |-> <<let_stmt("x", constant_expr(1)),
                 print_stmt(<<string_literal_expr("a"), variable_expr("q")>>),
                 print_stmt(<<string_literal_expr("b")>>)>>,
     blocks |-> <<block(1, <<1, 2, 3>>, NoLabels)>>]

\*   LET Q = 1
\*   IF Q THEN
\*   LET R$ = Q$
\*   END IF
ReadUndefinedString ==
    [stmts |-> <<let_stmt("q", constant_expr(1)),
                 if_block_stmt(<<variable_expr("q")>>, <<2>>),
                 let_stmt("r$", string_variable_expr("q$"))>>,
     blocks |-> <<block(1, <<1, 2>>, NoLabels),
                  block_copy(<<3>>, NoLabels)>>]

\*   PRINT 1/0
\*   PRINT "answer"
DivisionByZero ==
    [stmts |-> <<print_stmt(<<arith_expr(constant_expr(1), constant_expr(0), "divides")>>),
                 print_stmt(<<string_literal_expr("answer")>>)>>,
     blocks |-> <<block(1, <<1, 2>>, NoLabels)>>]

\*   INPUT N
\*   IF N THEN
\*   INPUT M
\*   LET N = N + M
\*   END IF
\*   PRINT N
InputThenLoop ==
    [stmts |-> <<input_stmt("n"),
                 if_block_stmt(<<variable_expr("n")>>, <<2>>),
                 input_stmt("m"),
                 let_stmt("n", arith_expr(variable_expr("n"), variable_expr("m"), "plus")),
                 print_stmt(<<variable_expr("n")>>)>>,
     blocks |-> <<block(1, <<1, 2, 5>>, NoLabels),
                  block_copy(<<3, 4>>, NoLabels)>>]

\*   FOR I = i TO f STEP s
\*   PRINT I
\*   NEXT I
\*   PRINT "."
ForCount(i, f, s) ==
    [stmts |-> <<for_stmt("i", constant_expr(i), constant_expr(f), constant_expr(s), 2),
                 empty_stmt,
                 print_stmt(<<variable_expr("i")>>),
                 print_stmt(<<string_literal_expr(".")>>)>>,
     blocks |-> <<block(1, <<1, 4>>, NoLabels),
                  block_copy(<<2, 3>>, NoLabels)>>]

\*   LET K = 1
\*   IF K THEN
\*   FOR I = i TO f STEP s
\*   PRINT I
\*   LET K = K + 1
\*   NEXT I
\*   END IF
\*   PRINT "."
ForCountNested(i, f, s) ==
    [stmts |-> <<let_stmt("k", constant_expr(1)),
                 if_block_stmt(<<variable_expr("k")>>, <<2>>),
                 for_stmt("i", constant_expr(i), constant_expr(f), constant_expr(s), 3),
                 empty_stmt,
                 print_stmt(<<variable_expr("i")>>),
                 let_stmt("k", arith_expr(variable_expr("k"), constant_expr(1), "plus")),
                 print_stmt(<<string_literal_expr(".")>>)>>,
     blocks |-> <<block(1, <<1, 2, 7>>, NoLabels),
                  block_copy(<<3>>, NoLabels),
                  block_copy(<<4, 5, 6>>, NoLabels)>>]

ForInputs == {<<i, f, s>> : i \in 0..MaxInitial, f \in (0 - 1)..MaxFinal, s \in 1..MaxStep}

\* The operands and the pairs of operators of the chains: an additive operator
\* and any operator after it, or a multiplicative one and an additive one
\* after it.
Additive == {"plus", "minus"}

Multiplicative == {"times", "divides", "modulo"}

ChainInputs ==
    {<<a, op1, b, op2, c>> :
        a \in 1..MaxOperand, b \in 1..MaxOperand, c \in 1..MaxOperand,
        op1 \in Additive, op2 \in Additive \cup Multiplicative}
    \cup {<<a, op1, b, op2, c>> :
        a \in 1..MaxOperand, b \in 1..MaxOperand, c \in 1..MaxOperand,
        op1 \in Multiplicative, op2 \in Additive}

\* The steps that are not positive.
ForStepInputs ==
    {<<i, f, s>> : i \in 0..MaxInitial, f \in (0 - 1)..MaxFinal, s \in (0 - MaxStep)..0}

Programs ==
    {EmptyProgram, Hello, StopAtRoot, StopInIf, StopInDo, StopInDoForever, StopInFor,
     StopInIfInDo, GotoForward, GotoBackward, IfGotoElse, GotoOutOfFor, GotoOutOfNested,
     GotoInsideDo, GotoInsideIf, GotoRestartsFor, GotoUndefined, ExitDoFromIf,
     ExitForDirect, ExitOuterFor, ExitInnerFor, ExitNoSuchBlock, ScopeDo, ScopeFor,
     ScopeIf, ScopeExit, Strings, LetThenRead, ReadUndefined, ReadUndefinedString,
     DivisionByZero, InputThenLoop}
    \cup {ForCount(p[1], p[2], p[3]) : p \in ForInputs}
    \cup {ForCountNested(p[1], p[2], p[3]) : p \in ForInputs}

(***************************************************************************)
(* The texts of the programs above, as the characters main() reads from    *)
(* the file: every line ends with a line break.                            *)
(***************************************************************************)
DecimalDigits == <<"0", "1", "2", "3", "4", "5", "6", "7", "8", "9">>

\* The characters of the decimal numeral of n.
RECURSIVE decimal(_)
decimal(n) ==
    IF n < 0 THEN <<"-">> \o decimal(0 - n)
    ELSE IF n < 10 THEN <<DecimalDigits[n + 1]>>
    ELSE decimal(n \div 10) \o <<DecimalDigits[(n % 10) + 1]>>

EmptyProgramText ==
    <<>>

HelloText ==
    <<"P", "R", "I", "N", "T", " ", "\"", "h", "e", "l", "l", "o", "\"", "\n">>

StopAtRootText ==
    <<"P", "R", "I", "N", "T", " ", "1", "\n", "S", "T", "O", "P", "\n", "P", "R", "I", "N",
      "T", " ", "2", "\n">>

StopInIfText ==
    <<"L", "E", "T", " ", "X", " ", "=", " ", "1", "\n", "I", "F", " ", "X", " ", "=", " ",
      "1", " ", "T", "H", "E", "N", "\n", "S", "T", "O", "P", "\n", "E", "N", "D", " ", "I",
      "F", "\n", "P", "R", "I", "N", "T", " ", "2", "\n">>

StopInDoText ==
    <<"L", "E", "T", " ", "X", " ", "=", " ", "0", "\n", "D", "O", " ", "W", "H", "I", "L",
      "E", " ", "X", " ", "<", " ", "3", "\n", "P", "R", "I", "N", "T", " ", "X", "\n", "S",
      "T", "O", "P", "\n", "L", "O", "O", "P", "\n", "P", "R", "I", "N", "T", " ", "2", "\n">>

StopInDoForeverText ==
    <<"D", "O", " ", "W", "H", "I", "L", "E", " ", "1", "\n", "S", "T", "O", "P", "\n", "P",
      "R", "I", "N", "T", " ", "1", "\n", "L", "O", "O", "P", "\n">>

StopInForText ==
    <<"F", "O", "R", " ", "I", " ", "=", " ", "1", " ", "T", "O", " ", "3", "\n", "P", "R",
      "I", "N", "T", " ", "I", "\n", "S", "T", "O", "P", "\n", "N", "E", "X", "T", " ", "I",
      "\n", "P", "R", "I", "N", "T", " ", "2", "\n">>

StopInIfInDoText ==
    <<"D", "O", " ", "W", "H", "I", "L", "E", " ", "1", "\n", "I", "F", " ", "1", " ", "T",
      "H", "E", "N", "\n", "S", "T", "O", "P", "\n", "E", "N", "D", " ", "I", "F", "\n", "P",
      "R", "I", "N", "T", " ", "1", "\n", "L", "O", "O", "P", "\n">>

GotoForwardText ==
    <<"1", "0", " ", "P", "R", "I", "N", "T", " ", "\"", "a", "\"", "\n", "G", "O", "T", "O",
      " ", "3", "0", "\n", "2", "0", " ", "P", "R", "I", "N", "T", " ", "\"", "b", "\"", "\n",
      "3", "0", " ", "P", "R", "I", "N", "T", " ", "\"", "c", "\"", "\n">>

GotoBackwardText ==
    <<"L", "E", "T", " ", "X", " ", "=", " ", "0", "\n", "1", "0", " ", "L", "E", "T", " ",
      "X", " ", "=", " ", "X", " ", "+", " ", "1", "\n", "I", "F", " ", "X", " ", "<", " ",
      "3", " ", "T", "H", "E", "N", " ", "1", "0", "\n", "P", "R", "I", "N", "T", " ", "X", "\n">>

IfGotoElseText ==
    <<"L", "E", "T", " ", "X", " ", "=", " ", "0", "\n", "I", "F", " ", "X", " ", "T", "H",
      "E", "N", " ", "y", "e", "s", " ", "E", "L", "S", "E", " ", "n", "o", "\n", "y", "e",
      "s", ":", " ", "P", "R", "I", "N", "T", " ", "\"", "y", "\"", "\n", "n", "o", ":", " ",
      "P", "R", "I", "N", "T", " ", "\"", "n", "\"", "\n">>

GotoOutOfForText ==
    <<"F", "O", "R", " ", "I", " ", "=", " ", "1", " ", "T", "O", " ", "3", "\n", "L", "E",
      "T", " ", "T", " ", "=", " ", "I", "\n", "I", "F", " ", "I", " ", "=", " ", "2", " ",
      "T", "H", "E", "N", " ", "d", "o", "n", "e", "\n", "P", "R", "I", "N", "T", " ", "I",
      "\n", "N", "E", "X", "T", " ", "I", "\n", "d", "o", "n", "e", ":", " ", "P", "R", "I",
      "N", "T", " ", "\"", "d", "\"", "\n">>

GotoOutOfNestedText ==
    <<"D", "O", " ", "W", "H", "I", "L", "E", " ", "1", "\n", "I", "F", " ", "1", " ", "T",
      "H", "E", "N", "\n", "G", "O", "T", "O", " ", "o", "u", "t", "\n", "E", "N", "D", " ",
      "I", "F", "\n", "L", "O", "O", "P", "\n", "o", "u", "t", ":", " ", "P", "R", "I", "N",
      "T", " ", "\"", "o", "\"", "\n">>

GotoInsideDoText ==
    <<"L", "E", "T", " ", "X", " ", "=", " ", "0", "\n", "D", "O", " ", "W", "H", "I", "L",
      "E", " ", "X", " ", "<", " ", "2", "\n", "a", "g", "a", "i", "n", ":", " ", "L", "E",
      "T", " ", "X", " ", "=", " ", "X", " ", "+", " ", "1", "\n", "I", "F", " ", "X", " ",
      "<", " ", "2", " ", "T", "H", "E", "N", " ", "a", "g", "a", "i", "n", "\n", "L", "O",
      "O", "P", "\n", "P", "R", "I", "N", "T", " ", "X", "\n">>

GotoInsideIfText ==
    <<"I", "F", " ", "1", " ", "T", "H", "E", "N", "\n", "G", "O", "T", "O", " ", "s", "k",
      "i", "p", "\n", "P", "R", "I", "N", "T", " ", "\"", "a", "\"", "\n", "s", "k", "i", "p",
      ":", " ", "P", "R", "I", "N", "T", " ", "\"", "b", "\"", "\n", "E", "N", "D", " ", "I",
      "F", "\n">>

GotoRestartsForText ==
    <<"L", "E", "T", " ", "C", " ", "=", " ", "0", "\n", "t", "o", "p", ":", " ", "F", "O",
      "R", " ", "I", " ", "=", " ", "1", " ", "T", "O", " ", "3", "\n", "L", "E", "T", " ",
      "C", " ", "=", " ", "C", " ", "+", " ", "1", "\n", "I", "F", " ", "C", " ", "<", " ",
      "3", " ", "T", "H", "E", "N", " ", "t", "o", "p", "\n", "N", "E", "X", "T", " ", "I",
      "\n", "P", "R", "I", "N", "T", " ", "C", "\n">>

GotoUndefinedText ==
    <<"P", "R", "I", "N", "T", " ", "\"", "a", "\"", "\n", "G", "O", "T", "O", " ", "n", "o",
      "w", "h", "e", "r", "e", "\n", "P", "R", "I", "N", "T", " ", "\"", "b", "\"", "\n">>

ExitDoFromIfText ==
    <<"L", "E", "T", " ", "X", " ", "=", " ", "0", "\n", "D", "O", " ", "W", "H", "I", "L",
      "E", " ", "1", "\n", "L", "E", "T", " ", "X", " ", "=", " ", "X", " ", "+", " ", "1",
      "\n", "I", "F", " ", "X", " ", ">", "=", " ", "3", " ", "T", "H", "E", "N", "\n", "E",
      "X", "I", "T", " ", "D", "O", "\n", "E", "N", "D", " ", "I", "F", "\n", "L", "O", "O",
      "P", "\n", "P", "R", "I", "N", "T", " ", "X", "\n">>

ExitForDirectText ==
    <<"F", "O", "R", " ", "I", " ", "=", " ", "1", " ", "T", "O", " ", "5", "\n", "P", "R",
      "I", "N", "T", " ", "I", "\n", "E", "X", "I", "T", " ", "F", "O", "R", "\n", "N", "E",
      "X", "T", " ", "I", "\n", "P", "R", "I", "N", "T", " ", "\"", "x", "\"", "\n">>

ExitOuterForText ==
    <<"F", "O", "R", " ", "I", " ", "=", " ", "1", " ", "T", "O", " ", "2", "\n", "L", "E",
      "T", " ", "A", " ", "=", " ", "I", "\n", "D", "O", " ", "W", "H", "I", "L", "E", " ",
      "1", "\n", "L", "E", "T", " ", "B", " ", "=", " ", "1", "\n", "E", "X", "I", "T", " ",
      "F", "O", "R", "\n", "L", "O", "O", "P", "\n", "P", "R", "I", "N", "T", " ", "\"", "n",
      "o", "\"", "\n", "N", "E", "X", "T", " ", "I", "\n", "P", "R", "I", "N", "T", " ", "I",
      "\n">>

ExitInnerForText ==
    <<"F", "O", "R", " ", "I", " ", "=", " ", "1", " ", "T", "O", " ", "2", "\n", "L", "E",
      "T", " ", "A", " ", "=", " ", "I", "\n", "F", "O", "R", " ", "J", " ", "=", " ", "1",
      " ", "T", "O", " ", "2", "\n", "E", "X", "I", "T", " ", "F", "O", "R", "\n", "N", "E",
      "X", "T", " ", "J", "\n", "P", "R", "I", "N", "T", " ", "A", ",", " ", "J", "\n", "N",
      "E", "X", "T", " ", "I", "\n">>

ExitNoSuchBlockText ==
    <<"D", "O", " ", "W", "H", "I", "L", "E", " ", "1", "\n", "E", "X", "I", "T", " ", "F",
      "O", "R", "\n", "L", "O", "O", "P", "\n", "P", "R", "I", "N", "T", " ", "\"", "x", "\"",
      "\n">>

ScopeDoText ==
    <<"L", "E", "T", " ", "C", " ", "=", " ", "0", "\n", "D", "O", " ", "W", "H", "I", "L",
      "E", " ", "C", " ", "<", " ", "2", "\n", "L", "E", "T", " ", "C", " ", "=", " ", "C",
      " ", "+", " ", "1", "\n", "I", "F", " ", "C", " ", "=", " ", "2", " ", "T", "H", "E",
      "N", "\n", "P", "R", "I", "N", "T", " ", "Y", "\n", "E", "N", "D", " ", "I", "F", "\n",
      "L", "E", "T", " ", "Y", " ", "=", " ", "1", "\n", "L", "O", "O", "P", "\n">>

ScopeForText ==
    <<"F", "O", "R", " ", "I", " ", "=", " ", "1", " ", "T", "O", " ", "2", "\n", "I", "F",
      " ", "I", " ", "=", " ", "2", " ", "T", "H", "E", "N", "\n", "P", "R", "I", "N", "T",
      " ", "T", "$", "\n", "E", "N", "D", " ", "I", "F", "\n", "L", "E", "T", " ", "T", "$",
      " ", "=", " ", "\"", "a", "\"", "\n", "N", "E", "X", "T", " ", "I", "\n">>

ScopeIfText ==
    <<"L", "E", "T", " ", "X", " ", "=", " ", "1", "\n", "I", "F", " ", "X", " ", "=", " ",
      "0", " ", "T", "H", "E", "N", "\n", "P", "R", "I", "N", "T", " ", "\"", "n", "o", "\"",
      "\n", "E", "L", "S", "E", "\n", "L", "E", "T", " ", "Z", " ", "=", " ", "5", "\n", "L",
      "E", "T", " ", "X", " ", "=", " ", "2", "\n", "L", "E", "T", " ", "X", "$", " ", "=",
      " ", "\"", "s", "\"", "\n", "E", "N", "D", " ", "I", "F", "\n", "P", "R", "I", "N", "T",
      " ", "X", "\n", "P", "R", "I", "N", "T", " ", "Z", "\n">>

ScopeExitText ==
    <<"D", "O", " ", "W", "H", "I", "L", "E", " ", "1", "\n", "L", "E", "T", " ", "W", " ",
      "=", " ", "1", "\n", "E", "X", "I", "T", " ", "D", "O", "\n", "L", "O", "O", "P", "\n",
      "P", "R", "I", "N", "T", " ", "W", "\n">>

StringsText ==
    <<"L", "E", "T", " ", "N", "$", " ", "=", " ", "\"", "w", "o", "r", "l", "d", "\"", "\n",
      "L", "E", "T", " ", "N", " ", "=", " ", "1", "\n", "I", "F", " ", "N", " ", "T", "H",
      "E", "N", "\n", "L", "E", "T", " ", "N", "$", " ", "=", " ", "\"", "a", "l", "l", "\"",
      "\n", "E", "N", "D", " ", "I", "F", "\n", "P", "R", "I", "N", "T", " ", "\"", "h", "e",
      "l", "l", "o", " ", "\"", " ", "&", " ", "N", "$", ",", " ", "N", "\n">>

LetThenReadText ==
    <<"L", "E", "T", " ", "X", " ", "=", " ", "2", "\n", "L", "E", "T", " ", "Y", " ", "=",
      " ", "X", " ", "+", " ", "1", "\n", "D", "O", " ", "W", "H", "I", "L", "E", " ", "Y",
      " ", "<", " ", "5", "\n", "L", "E", "T", " ", "Y", " ", "=", " ", "Y", " ", "+", " ",
      "1", "\n", "I", "F", " ", "Y", " ", "=", " ", "4", " ", "T", "H", "E", "N", "\n", "L",
      "E", "T", " ", "Q", " ", "=", " ", "0", "\n", "P", "R", "I", "N", "T", " ", "X", ",",
      " ", "Y", "\n", "E", "N", "D", " ", "I", "F", "\n", "L", "O", "O", "P", "\n", "P", "R",
      "I", "N", "T", " ", "X", "\n">>

ReadUndefinedText ==
    <<"L", "E", "T", " ", "X", " ", "=", " ", "1", "\n", "P", "R", "I", "N", "T", " ", "\"",
      "a", "\"", ",", " ", "Q", "\n", "P", "R", "I", "N", "T", " ", "\"", "b", "\"", "\n">>

ReadUndefinedStringText ==
    <<"L", "E", "T", " ", "Q", " ", "=", " ", "1", "\n", "I", "F", " ", "Q", " ", "T", "H",
      "E", "N", "\n", "L", "E", "T", " ", "R", "$", " ", "=", " ", "Q", "$", "\n", "E", "N",
      "D", " ", "I", "F", "\n">>

DivisionByZeroText ==
    <<"P", "R", "I", "N", "T", " ", "1", "/", "0", "\n", "P", "R", "I", "N", "T", " ", "\"",
      "a", "n", "s", "w", "e", "r", "\"", "\n">>

InputThenLoopText ==
    <<"I", "N", "P", "U", "T", " ", "N", "\n", "I", "F", " ", "N", " ", "T", "H", "E", "N",
      "\n", "I", "N", "P", "U", "T", " ", "M", "\n", "L", "E", "T", " ", "N", " ", "=", " ",
      "N", " ", "+", " ", "M", "\n", "E", "N", "D", " ", "I", "F", "\n", "P", "R", "I", "N",
      "T", " ", "N", "\n">>

\* A jump from the root block to a label that only the body of a DO defines.
\*   GOTO inner
\*   DO WHILE 1
\*   inner: PRINT 1
\*   STOP
\*   LOOP
GotoIntoDoText ==
    <<"G", "O", "T", "O", " ", "i", "n", "n", "e", "r", "\n", "D", "O", " ", "W", "H", "I",
      "L", "E", " ", "1", "\n", "i", "n", "n", "e", "r", ":", " ", "P", "R", "I", "N", "T",
      " ", "1", "\n", "S", "T", "O", "P", "\n", "L", "O", "O", "P", "\n">>

\* Jumps to a label defined nowhere, none of which is taken.
\*   IF 0 THEN nowhere
\*   GOTO over
\*   GOTO nowhere
\*   over: PRINT 1
GotoNeverTakenText ==
    <<"I", "F", " ", "0", " ", "T", "H", "E", "N", " ", "n", "o", "w", "h", "e", "r", "e",
      "\n", "G", "O", "T", "O", " ", "o", "v", "e", "r", "\n", "G", "O", "T", "O", " ", "n",
      "o", "w", "h", "e", "r", "e", "\n", "o", "v", "e", "r", ":", " ", "P", "R", "I", "N",
      "T", " ", "1", "\n">>

\* A conditional jump, taken, to a label defined nowhere.
\*   PRINT 0
\*   IF 1 THEN nowhere
\*   PRINT 1
IfGotoUndefinedText ==
    <<"P", "R", "I", "N", "T", " ", "0", "\n", "I", "F", " ", "1", " ", "T", "H", "E", "N",
      " ", "n", "o", "w", "h", "e", "r", "e", "\n", "P", "R", "I", "N", "T", " ", "1", "\n">>

\* A conditional jump whose ELSE label is defined nowhere.
\*   IF 0 THEN 10 ELSE 20
\*   PRINT 1
IfGotoElseUndefinedText ==
    <<"I", "F", " ", "0", " ", "T", "H", "E", "N", " ", "1", "0", " ", "E", "L", "S", "E", " ",
      "2", "0", "\n", "P", "R", "I", "N", "T", " ", "1", "\n">>

\* EXIT IF in the branch of an IF: no frame is attached to a statement called if.
\*   IF 1 THEN
\*   PRINT 0
\*   EXIT IF
\*   END IF
\*   PRINT 1
ExitIfText ==
    <<"I", "F", " ", "1", " ", "T", "H", "E", "N", "\n", "P", "R", "I", "N", "T", " ", "0",
      "\n", "E", "X", "I", "T", " ", "I", "F", "\n", "E", "N", "D", " ", "I", "F", "\n", "P",
      "R", "I", "N", "T", " ", "1", "\n">>

\* EXIT in the root block.
\*   PRINT 0
\*   EXIT DO
\*   PRINT 1
ExitAtRootText ==
    <<"P", "R", "I", "N", "T", " ", "0", "\n", "E", "X", "I", "T", " ", "D", "O", "\n", "P",
      "R", "I", "N", "T", " ", "1", "\n">>

\* A DO whose condition is false at the start.
\*   DO WHILE 0
\*   PRINT 1
\*   LOOP
\*   PRINT 2
DoNeverText ==
    <<"D", "O", " ", "W", "H", "I", "L", "E", " ", "0", "\n", "P", "R", "I", "N", "T", " ",
      "1", "\n", "L", "O", "O", "P", "\n", "P", "R", "I", "N", "T", " ", "2", "\n">>

\* A DO whose body runs twice.
\*   LET X = 0
\*   DO WHILE X < 2
\*   LET X = X + 1
\*   PRINT X
\*   LOOP
\*   PRINT "."
DoTwiceText ==
    <<"L", "E", "T", " ", "X", " ", "=", " ", "0", "\n", "D", "O", " ", "W", "H", "I", "L",
      "E", " ", "X", " ", "<", " ", "2", "\n", "L", "E", "T", " ", "X", " ", "=", " ", "X",
      " ", "+", " ", "1", "\n", "P", "R", "I", "N", "T", " ", "X", "\n", "L", "O", "O", "P",
      "\n", "P", "R", "I", "N", "T", " ", "\"", ".", "\"", "\n">>

\* An IF with two ELSEIF and an ELSE; the last condition cannot be evaluated.
\*   INPUT X
\*   IF X = 0 THEN
\*   PRINT "a"
\*   ELSEIF X = 1 THEN
\*   PRINT "b"
\*   ELSEIF 1/0 THEN
\*   PRINT "c"
\*   ELSE
\*   PRINT "d"
\*   END IF
\*   PRINT "."
IfChainText ==
    <<"I", "N", "P", "U", "T", " ", "X", "\n", "I", "F", " ", "X", " ", "=", " ", "0", " ",
      "T", "H", "E", "N", "\n", "P", "R", "I", "N", "T", " ", "\"", "a", "\"", "\n", "E", "L",
      "S", "E", "I", "F", " ", "X", " ", "=", " ", "1", " ", "T", "H", "E", "N", "\n", "P",
      "R", "I", "N", "T", " ", "\"", "b", "\"", "\n", "E", "L", "S", "E", "I", "F", " ", "1",
      "/", "0", " ", "T", "H", "E", "N", "\n", "P", "R", "I", "N", "T", " ", "\"", "c", "\"",
      "\n", "E", "L", "S", "E", "\n", "P", "R", "I", "N", "T", " ", "\"", "d", "\"", "\n", "E",
      "N", "D", " ", "I", "F", "\n", "P", "R", "I", "N", "T", " ", "\"", ".", "\"", "\n">>

\* An IF whose second condition cannot be evaluated.
\*   INPUT X
\*   IF X THEN
\*   PRINT "a"
\*   ELSEIF 1/0 THEN
\*   PRINT "c"
\*   END IF
\*   PRINT "."
IfGuardedText ==
    <<"I", "N", "P", "U", "T", " ", "X", "\n", "I", "F", " ", "X", " ", "T", "H", "E", "N",
      "\n", "P", "R", "I", "N", "T", " ", "\"", "a", "\"", "\n", "E", "L", "S", "E", "I", "F",
      " ", "1", "/", "0", " ", "T", "H", "E", "N", "\n", "P", "R", "I", "N", "T", " ", "\"",
      "c", "\"", "\n", "E", "N", "D", " ", "I", "F", "\n", "P", "R", "I", "N", "T", " ", "\"",
      ".", "\"", "\n">>

\* An IF with an ELSE.
\*   INPUT X
\*   IF X THEN
\*   PRINT "a"
\*   ELSE
\*   PRINT "d"
\*   END IF
\*   PRINT "."
IfElseText ==
    <<"I", "N", "P", "U", "T", " ", "X", "\n", "I", "F", " ", "X", " ", "T", "H", "E", "N",
      "\n", "P", "R", "I", "N", "T", " ", "\"", "a", "\"", "\n", "E", "L", "S", "E", "\n", "P",
      "R", "I", "N", "T", " ", "\"", "d", "\"", "\n", "E", "N", "D", " ", "I", "F", "\n", "P",
      "R", "I", "N", "T", " ", "\"", ".", "\"", "\n">>

\* An IF with neither ELSEIF nor ELSE.
\*   INPUT X
\*   IF X THEN
\*   PRINT "a"
\*   END IF
\*   PRINT "."
IfAloneText ==
    <<"I", "N", "P", "U", "T", " ", "X", "\n", "I", "F", " ", "X", " ", "T", "H", "E", "N",
      "\n", "P", "R", "I", "N", "T", " ", "\"", "a", "\"", "\n", "E", "N", "D", " ", "I", "F",
      "\n", "P", "R", "I", "N", "T", " ", "\"", ".", "\"", "\n">>

\* A FOR whose body assigns the variables of its final and step expressions.
\*   LET F = 3
\*   LET S = 1
\*   FOR I = 1 TO F STEP S
\*   LET F = 10
\*   LET S = 2
\*   PRINT I
\*   NEXT I
\*   PRINT "."
ForFrozenText ==
    <<"L", "E", "T", " ", "F", " ", "=", " ", "3", "\n", "L", "E", "T", " ", "S", " ", "=",
      " ", "1", "\n", "F", "O", "R", " ", "I", " ", "=", " ", "1", " ", "T", "O", " ", "F",
      " ", "S", "T", "E", "P", " ", "S", "\n", "L", "E", "T", " ", "F", " ", "=", " ", "1",
      "0", "\n", "L", "E", "T", " ", "S", " ", "=", " ", "2", "\n", "P", "R", "I", "N", "T",
      " ", "I", "\n", "N", "E", "X", "T", " ", "I", "\n", "P", "R", "I", "N", "T", " ", "\"",
      ".", "\"", "\n">>

\* A single-line IF whose THEN part is EXIT DO, inside a DO.
\*   LET X = 0
\*   DO WHILE 1
\*   LET X = X+1
\*   IF X >= 3 THEN EXIT DO
\*   LOOP
\*   PRINT X
ExitDoInlineText ==
    <<"L", "E", "T", " ", "X", " ", "=", " ", "0", "\n", "D", "O", " ", "W", "H", "I", "L",
      "E", " ", "1", "\n", "L", "E", "T", " ", "X", " ", "=", " ", "X", "+", "1", "\n", "I",
      "F", " ", "X", " ", ">", "=", " ", "3", " ", "T", "H", "E", "N", " ", "E", "X", "I", "T",
      " ", "D", "O", "\n", "L", "O", "O", "P", "\n", "P", "R", "I", "N", "T", " ", "X", "\n">>

\* One PRINT, the input ending right after the closing quote.
\*   PRINT "hello"
HelloUnterminatedText ==
    <<"P", "R", "I", "N", "T", " ", "\"", "h", "e", "l", "l", "o", "\"">>

\* END on a line of its own, the line break the last character.
\*   PRINT 1
\*   END
EndLineText ==
    <<"P", "R", "I", "N", "T", " ", "1", "\n", "E", "N", "D", "\n">>

\* END as the last characters of the input.
\*   PRINT 1
\*   END
EndAtEofText ==
    <<"P", "R", "I", "N", "T", " ", "1", "\n", "E", "N", "D">>

\* END followed by spaces and a tab.
\*   PRINT 1
\*   END  	
EndBlankText ==
    <<"P", "R", "I", "N", "T", " ", "1", "\n", "E", "N", "D", " ", " ", "\t">>

\* END followed by another statement.
\*   PRINT 1
\*   END
\*   PRINT 2
EndThenMoreText ==
    <<"P", "R", "I", "N", "T", " ", "1", "\n", "E", "N", "D", "\n", "P", "R", "I", "N", "T",
      " ", "2", "\n">>

\* LOOP in the root block.
\*   PRINT 1
\*   LOOP
LoopAtRootText ==
    <<"P", "R", "I", "N", "T", " ", "1", "\n", "L", "O", "O", "P", "\n">>

\* NEXT in the root block.
\*   PRINT 1
\*   NEXT I
NextAtRootText ==
    <<"P", "R", "I", "N", "T", " ", "1", "\n", "N", "E", "X", "T", " ", "I", "\n">>

\* ELSE in the root block.
\*   PRINT 1
\*   ELSE
ElseAtRootText ==
    <<"P", "R", "I", "N", "T", " ", "1", "\n", "E", "L", "S", "E", "\n">>

\* ELSEIF in the root block.
\*   PRINT 1
\*   ELSEIF 1 THEN
ElseifAtRootText ==
    <<"P", "R", "I", "N", "T", " ", "1", "\n", "E", "L", "S", "E", "I", "F", " ", "1", " ",
      "T", "H", "E", "N", "\n">>

\* A comment with no text.
\*   REM
\*   PRINT 1
\*   PRINT 2
RemEmptyText ==
    <<"R", "E", "M", "\n", "P", "R", "I", "N", "T", " ", "1", "\n", "P", "R", "I", "N", "T",
      " ", "2", "\n">>

\* A comment with text.
\*   REM hello
\*   PRINT 1
\*   PRINT 2
RemWordsText ==
    <<"R", "E", "M", " ", "h", "e", "l", "l", "o", "\n", "P", "R", "I", "N", "T", " ", "1",
      "\n", "P", "R", "I", "N", "T", " ", "2", "\n">>

\* A comment with no text before the last statement.
\*   PRINT 0
\*   REM
\*   PRINT 1
RemBetweenText ==
    <<"P", "R", "I", "N", "T", " ", "0", "\n", "R", "E", "M", "\n", "P", "R", "I", "N", "T",
      " ", "1", "\n">>

\* A comment of one space.
\*   REM 
\*   PRINT 1
\*   PRINT 2
RemBlankText ==
    <<"R", "E", "M", " ", "\n", "P", "R", "I", "N", "T", " ", "1", "\n", "P", "R", "I", "N",
      "T", " ", "2", "\n">>

\* INPUT with a string identifier as its target.
\*   INPUT A$
InputStringNameText ==
    <<"I", "N", "P", "U", "T", " ", "A", "$", "\n">>

\* FOR with a string identifier as its loop variable.
\*   FOR A$ = 1 TO 1
\*   NEXT A$
ForStringNameText ==
    <<"F", "O", "R", " ", "A", "$", " ", "=", " ", "1", " ", "T", "O", " ", "1", "\n", "N",
      "E", "X", "T", " ", "A", "$", "\n">>

\* A block IF with two ELSE clauses.
\*   IF 0 THEN
\*   ELSE
\*   PRINT "a"
\*   ELSE
\*   END IF
IfTwoElseText ==
    <<"I", "F", " ", "0", " ", "T", "H", "E", "N", "\n", "E", "L", "S", "E", "\n", "P", "R",
      "I", "N", "T", " ", "\"", "a", "\"", "\n", "E", "L", "S", "E", "\n", "E", "N", "D", " ",
      "I", "F", "\n">>

\* A minus sign before a numeric literal.
\*   PRINT -2
MinusLiteralText ==
    <<"P", "R", "I", "N", "T", " ", "-", "2", "\n">>

\* A minus sign before a numeric identifier.
\*   LET X = 2
\*   PRINT -X
MinusNameText ==
    <<"L", "E", "T", " ", "X", " ", "=", " ", "2", "\n", "P", "R", "I", "N", "T", " ", "-",
      "X", "\n">>

\* A minus sign before a parenthesised expression.
\*   PRINT -(2)
MinusParenthesisText ==
    <<"P", "R", "I", "N", "T", " ", "-", "(", "2", ")", "\n">>

\* A divisor of value 1 that is the sum of two halves.
\*   LET D = 0.5 + 0.5
\*   PRINT 1 / D
DivideBySumText ==
    <<"L", "E", "T", " ", "D", " ", "=", " ", "0", ".", "5", " ", "+", " ", "0", ".", "5",
      "\n", "P", "R", "I", "N", "T", " ", "1", " ", "/", " ", "D", "\n">>

\* A divisor whose integer part is zero.
\*   PRINT 1 / 0.5
DivideByHalfText ==
    <<"P", "R", "I", "N", "T", " ", "1", " ", "/", " ", "0", ".", "5", "\n">>

\* The least int divided by -1.
\*   LET A = -2147483647 - 1
\*   PRINT A / -1
DivideMinText ==
    <<"L", "E", "T", " ", "A", " ", "=", " ", "-", "2", "1", "4", "7", "4", "8", "3", "6", "4",
      "7", " ", "-", " ", "1", "\n", "P", "R", "I", "N", "T", " ", "A", " ", "/", " ", "-",
      "1", "\n">>

\* A division of ints without remainder.
\*   PRINT 4/2
DivideExactText ==
    <<"P", "R", "I", "N", "T", " ", "4", "/", "2", "\n">>

\* A division of ints with a remainder.
\*   PRINT 1/2
DivideInexactText ==
    <<"P", "R", "I", "N", "T", " ", "1", "/", "2", "\n">>

\* A number with a zero before its decimal point.
\*   PRINT 0.5
LeadingZeroText ==
    <<"P", "R", "I", "N", "T", " ", "0", ".", "5", "\n">>

\* A block IF whose ELSE clause stands before an ELSEIF clause.
\*   IF 0 THEN
\*   PRINT "a"
\*   ELSE
\*   PRINT "b"
\*   ELSEIF 1 THEN
\*   PRINT "c"
\*   END IF
IfElseBeforeElseifText ==
    <<"I", "F", " ", "0", " ", "T", "H", "E", "N", "\n", "P", "R", "I", "N", "T", " ", "\"",
      "a", "\"", "\n", "E", "L", "S", "E", "\n", "P", "R", "I", "N", "T", " ", "\"", "b", "\"",
      "\n", "E", "L", "S", "E", "I", "F", " ", "1", " ", "T", "H", "E", "N", "\n", "P", "R",
      "I", "N", "T", " ", "\"", "c", "\"", "\n", "E", "N", "D", " ", "I", "F", "\n">>

\* The remainder of a division by zero.
\*   PRINT 1 MOD 0
ModuloByZeroText ==
    <<"P", "R", "I", "N", "T", " ", "1", " ", "M", "O", "D", " ", "0", "\n">>

\* A term with two multiplications.
\*   PRINT 2 * 3 * 4
TimesTimesText ==
    <<"P", "R", "I", "N", "T", " ", "2", " ", "*", " ", "3", " ", "*", " ", "4", "\n">>

\* A term with two divisions.
\*   PRINT 8 / 4 / 2
DividesDividesText ==
    <<"P", "R", "I", "N", "T", " ", "8", " ", "/", " ", "4", " ", "/", " ", "2", "\n">>

\* A term with a multiplication and a remainder.
\*   PRINT 2 * 3 MOD 4
TimesModText ==
    <<"P", "R", "I", "N", "T", " ", "2", " ", "*", " ", "3", " ", "M", "O", "D", " ", "4", "\n">>

\* A numeric expression with two ANDs.
\*   PRINT 1 AND 1 AND 1
AndAndText ==
    <<"P", "R", "I", "N", "T", " ", "1", " ", "A", "N", "D", " ", "1", " ", "A", "N", "D", " ",
      "1", "\n">>

\* A chain of three additive operators.
\*   PRINT 1 + 2 - 3 + 4
PlusMinusPlusText ==
    <<"P", "R", "I", "N", "T", " ", "1", " ", "+", " ", "2", " ", "-", " ", "3", " ", "+", " ",
      "4", "\n">>

\* A product whose left factor is a product in parentheses.
\*   PRINT (2 * 3) * 4
TimesInParenthesesText ==
    <<"P", "R", "I", "N", "T", " ", "(", "2", " ", "*", " ", "3", ")", " ", "*", " ", "4", "\n">>

\* Block openers and the lines that can follow the body of a block: the text
\* BlockText(o, c) opens the block o, has PRINT 1 as its body and goes on with
\* the line c ("" is the end of the input).
Openers == {"do", "for", "if"}

Closers == {"loop", "next i", "next j", "end if", "else", "elseif", "end", ""}

NestedClosers == {"loop", "next i", "next j", "end if"}

OpenerLine(o) ==
    CASE o = "do" -> <<"D", "O", " ", "W", "H", "I", "L", "E", " ", "0", "\n">>
      [] o = "for" -> <<"F", "O", "R", " ", "I", " ", "=", " ", "1", " ", "T", "O", " ", "1", "\n">>
      [] o = "if" -> <<"I", "F", " ", "1", " ", "T", "H", "E", "N", "\n">>

\* The FOR around another block counts in J.
OuterOpenerLine(o) ==
    CASE o = "do" -> <<"D", "O", " ", "W", "H", "I", "L", "E", " ", "0", "\n">>
      [] o = "for" -> <<"F", "O", "R", " ", "J", " ", "=", " ", "1", " ", "T", "O", " ", "1", "\n">>
      [] o = "if" -> <<"I", "F", " ", "1", " ", "T", "H", "E", "N", "\n">>

CloserLine(c) ==
    CASE c = "loop" -> <<"L", "O", "O", "P", "\n">>
      [] c = "next i" -> <<"N", "E", "X", "T", " ", "I", "\n">>
      [] c = "next j" -> <<"N", "E", "X", "T", " ", "J", "\n">>
      [] c = "end if" -> <<"E", "N", "D", " ", "I", "F", "\n">>
      [] c = "else" -> <<"E", "L", "S", "E", "\n">>
      [] c = "elseif" -> <<"E", "L", "S", "E", "I", "F", " ", "1", " ", "T", "H", "E", "N", "\n">>
      [] c = "end" -> <<"E", "N", "D", "\n">>
      [] c = "" -> <<>>

OwnCloser(o) ==
    CASE o = "do" -> "loop"
      [] o = "for" -> "next i"
      [] o = "if" -> "end if"

OuterOwnCloser(o) == IF o = "for" THEN "next j" ELSE OwnCloser(o)

BlockBodyText ==
    <<"P", "R", "I", "N", "T", " ", "1", "\n">>

BlockText(o, c) == OpenerLine(o) \o BlockBodyText \o CloserLine(c)

\* The block inner within the block outer: the line c2 follows the body and the
\* line c1 follows that.
NestedBlockText(outer, inner, c2, c1) ==
    OuterOpenerLine(outer) \o OpenerLine(inner) \o BlockBodyText
        \o CloserLine(c2) \o CloserLine(c1)

BlockTexts ==
    {BlockText(o, c) : o \in Openers, c \in Closers}
    \cup {NestedBlockText(q[1], q[2], q[3], q[4]) :
              q \in Openers \X Openers \X NestedClosers \X NestedClosers}

\* A FOR whose step is zero or negative, and a PRINT of the loop variable after
\* the loop:
\*   FOR I = i TO f STEP s
\*   PRINT I
\*   NEXT I
\*   PRINT I
ForStepText(i, f, s) ==
    <<"F", "O", "R", " ", "I", " ", "=", " ">>
    \o decimal(i)
    \o <<" ", "T", "O", " ">>
    \o decimal(f)
    \o <<" ", "S", "T", "E", "P", " ">>
    \o decimal(s)
    \o <<"\n", "P", "R", "I", "N", "T", " ", "I", "\n", "N", "E", "X", "T", " ", "I", "\n", "P",
      "R", "I", "N", "T", " ", "I", "\n">>

\* The same lines as the first branch of a block IF.
ForStepNestedText(i, f, s) ==
    <<"I", "F", " ", "1", " ", "T", "H", "E", "N", "\n">>
    \o ForStepText(i, f, s)
    \o <<"E", "N", "D", " ", "I", "F", "\n">>

\* Three statements that could run and a fourth that has no right operand.
\*   PRINT 1
\*   INPUT X
\*   PRINT X
\*   PRINT 3 +
LateSyntaxErrorText ==
    <<"P", "R", "I", "N", "T", " ", "1", "\n", "I", "N", "P", "U", "T", " ", "X", "\n", "P",
      "R", "I", "N", "T", " ", "X", "\n", "P", "R", "I", "N", "T", " ", "3", " ", "+", "\n">>

\* Three statements that could run and a fourth with a character that starts no lexeme.
\*   PRINT 1
\*   INPUT X
\*   PRINT X
\*   PRINT 3 ! 4
LateLexerErrorText ==
    <<"P", "R", "I", "N", "T", " ", "1", "\n", "I", "N", "P", "U", "T", " ", "X", "\n", "P",
      "R", "I", "N", "T", " ", "X", "\n", "P", "R", "I", "N", "T", " ", "3", " ", "!", " ",
      "4", "\n">>

\* PRINT a op1 b op2 c, where op1 or op2 is additive:
\*   PRINT 2 - 1 - 2
\*   PRINT 2 - 1 * 2
\*   PRINT 2 MOD 1 + 2
OperatorText(op) ==
    CASE op = "plus" -> <<" ", "+", " ">>
      [] op = "minus" -> <<" ", "-", " ">>
      [] op = "times" -> <<" ", "*", " ">>
      [] op = "divides" -> <<" ", "/", " ">>
      [] op = "modulo" -> <<" ", "M", "O", "D", " ">>

ChainText(a, op1, b, op2, c) ==
    <<"P", "R", "I", "N", "T", " ">>
    \o decimal(a) \o OperatorText(op1) \o decimal(b) \o OperatorText(op2) \o decimal(c)
    \o <<"\n">>

\* A conditional jump, taken, to a label of the IF branch it stands in.
\*   IF 1 THEN
\*   IF 1 THEN skip
\*   PRINT "a"
\*   skip: PRINT "b"
\*   END IF
IfGotoInsideIfText ==
    <<"I", "F", " ", "1", " ", "T", "H", "E", "N", "\n", "I", "F", " ", "1", " ", "T", "H",
      "E", "N", " ", "s", "k", "i", "p", "\n", "P", "R", "I", "N", "T", " ", "\"", "a", "\"",
      "\n", "s", "k", "i", "p", ":", " ", "P", "R", "I", "N", "T", " ", "\"", "b", "\"", "\n",
      "E", "N", "D", " ", "I", "F", "\n">>

\* A conditional jump with no ELSE label whose condition is false, in the body of a DO.
\*   LET X = 0
\*   DO WHILE X < 1
\*   LET X = X + 1
\*   IF X > 1 THEN skip
\*   PRINT "a"
\*   skip: PRINT "b"
\*   LOOP
IfGotoFallsThroughText ==
    <<"L", "E", "T", " ", "X", " ", "=", " ", "0", "\n", "D", "O", " ", "W", "H", "I", "L",
      "E", " ", "X", " ", "<", " ", "1", "\n", "L", "E", "T", " ", "X", " ", "=", " ", "X",
      " ", "+", " ", "1", "\n", "I", "F", " ", "X", " ", ">", " ", "1", " ", "T", "H", "E",
      "N", " ", "s", "k", "i", "p", "\n", "P", "R", "I", "N", "T", " ", "\"", "a", "\"", "\n",
      "s", "k", "i", "p", ":", " ", "P", "R", "I", "N", "T", " ", "\"", "b", "\"", "\n", "L",
      "O", "O", "P", "\n">>

\* Sums, differences and products of ints and of numbers with a decimal point.
\*   LET X = 0.5 * 2
\*   LET Y = 3 - 2 * 1
\*   LET Z = Y + X
\*   LET W = X - X
\*   PRINT X
\*   PRINT Y
\*   PRINT Z
\*   PRINT W
MixedArithmeticText ==
    <<"L", "E", "T", " ", "X", " ", "=", " ", "0", ".", "5", " ", "*", " ", "2", "\n", "L",
      "E", "T", " ", "Y", " ", "=", " ", "3", " ", "-", " ", "2", " ", "*", " ", "1", "\n",
      "L", "E", "T", " ", "Z", " ", "=", " ", "Y", " ", "+", " ", "X", "\n", "L", "E", "T",
      " ", "W", " ", "=", " ", "X", " ", "-", " ", "X", "\n", "P", "R", "I", "N", "T", " ",
      "X", "\n", "P", "R", "I", "N", "T", " ", "Y", "\n", "P", "R", "I", "N", "T", " ", "Z",
      "\n", "P", "R", "I", "N", "T", " ", "W", "\n">>

\* Line breaks that follow one another with blanks and tabs between them.
\*   PRINT 1
\*    
\*   	
\*   
\*   PRINT 2
\*   
\*    	
\*   PRINT 3
BlankLinesText ==
    <<"P", "R", "I", "N", "T", " ", "1", "\n", " ", "\n", "\t", "\n", "\n", "P", "R", "I", "N",
      "T", " ", "2", "\n", "\n", " ", "\t", "\n", "P", "R", "I", "N", "T", " ", "3", "\n">>

\* A PRINT with no expression.
\*   PRINT
PrintNothingText ==
    <<"P", "R", "I", "N", "T", "\n">>

\* A PRINT of numbers and strings.
\*   PRINT 1, "a", 2 + 3, "b" & "c"
PrintListText ==
    <<"P", "R", "I", "N", "T", " ", "1", ",", " ", "\"", "a", "\"", ",", " ", "2", " ", "+",
      " ", "3", ",", " ", "\"", "b", "\"", " ", "&", " ", "\"", "c", "\"", "\n">>

\* A PRINT whose second expression reads an unbound variable and whose third divides by zero.
\*   PRINT 1, X, 1 / 0
\*   PRINT 2
PrintFailsSecondText ==
    <<"P", "R", "I", "N", "T", " ", "1", ",", " ", "X", ",", " ", "1", " ", "/", " ", "0",
      "\n", "P", "R", "I", "N", "T", " ", "2", "\n">>

\* The same expressions, the division first.
\*   PRINT 1, 1 / 0, X
PrintFailsDivisionText ==
    <<"P", "R", "I", "N", "T", " ", "1", ",", " ", "1", " ", "/", " ", "0", ",", " ", "X", "\n">>

ForCountText(i, f, s) ==
    <<"F", "O", "R", " ", "I", " ", "=", " ">>
    \o decimal(i)
    \o <<" ", "T", "O", " ">>
    \o decimal(f)
    \o <<" ", "S", "T", "E", "P", " ">>
    \o decimal(s)
    \o <<"\n", "P", "R", "I", "N", "T", " ", "I", "\n", "N", "E", "X", "T", " ", "I", "\n", "P", "R", "I", "N", "T", " ", "\"", ".", "\"", "\n">>

ForCountNestedText(i, f, s) ==
    <<"L", "E", "T", " ", "K", " ", "=", " ", "1", "\n", "I", "F", " ", "K", " ", "T", "H", "E", "N", "\n", "F", "O", "R", " ", "I", " ", "=", " ">>
    \o decimal(i)
    \o <<" ", "T", "O", " ">>
    \o decimal(f)
    \o <<" ", "S", "T", "E", "P", " ">>
    \o decimal(s)
    \o <<"\n", "P", "R", "I", "N", "T", " ", "I", "\n", "L", "E", "T", " ", "K", " ", "=", " ", "K", " ", "+", " ", "1", "\n", "N", "E", "X", "T", " ", "I", "\n", "E", "N", "D", " ", "I", "F", "\n", "P",
  "R", "I", "N", "T", " ", "\"", ".", "\"", "\n">>

\* The texts main() is run on.
Sources ==
    {EmptyProgramText, HelloText, StopAtRootText, StopInIfText, StopInDoText,
     StopInDoForeverText, StopInForText, StopInIfInDoText, GotoForwardText,
     GotoBackwardText, IfGotoElseText, GotoOutOfForText, GotoOutOfNestedText,
     GotoInsideDoText, GotoInsideIfText, GotoRestartsForText, GotoUndefinedText,
     ExitDoFromIfText, ExitForDirectText, ExitOuterForText, ExitInnerForText,
     ExitNoSuchBlockText, ScopeDoText, ScopeForText, ScopeIfText, ScopeExitText,
     StringsText, LetThenReadText, ReadUndefinedText, ReadUndefinedStringText,
     DivisionByZeroText, InputThenLoopText,
     GotoIntoDoText,
     GotoNeverTakenText,
     IfGotoUndefinedText,
     IfGotoElseUndefinedText,
     ExitIfText,
     ExitAtRootText,
     DoNeverText,
     DoTwiceText,
     IfChainText,
     IfGuardedText,
     IfElseText,
     IfAloneText,
     ForFrozenText,
     ExitDoInlineText,
     HelloUnterminatedText,
     EndLineText,
     EndAtEofText,
     EndBlankText,
     EndThenMoreText,
     LoopAtRootText,
     NextAtRootText,
     ElseAtRootText,
     ElseifAtRootText,
     RemEmptyText,
     RemWordsText,
     RemBetweenText,
     RemBlankText,
     InputStringNameText,
     ForStringNameText,
     IfTwoElseText,
     MinusLiteralText,
     MinusNameText,
     MinusParenthesisText,
     DivideBySumText,
     DivideByHalfText,
     DivideMinText,
     DivideExactText,
     DivideInexactText,
     LeadingZeroText,
     IfElseBeforeElseifText,
     ModuloByZeroText,
     TimesTimesText,
     DividesDividesText,
     TimesModText,
     AndAndText,
     PlusMinusPlusText,
     TimesInParenthesesText,
     LateSyntaxErrorText,
     LateLexerErrorText,
     IfGotoInsideIfText,
     IfGotoFallsThroughText,
     MixedArithmeticText,
     BlankLinesText,
     PrintNothingText,
     PrintListText,
     PrintFailsSecondText,
     PrintFailsDivisionText}
    \cup {ForCountText(p[1], p[2], p[3]) : p \in ForInputs}
    \cup {ForCountNestedText(p[1], p[2], p[3]) : p \in ForInputs}
    \cup BlockTexts
    \cup {ForStepText(p[1], p[2], p[3]) : p \in ForStepInputs}
    \cup {ForStepNestedText(p[1], p[2], p[3]) : p \in ForStepInputs}
    \cup {ChainText(p[1], p[2], p[3], p[4], p[5]) : p \in ChainInputs}

\* The lines std::getline can read.
Lines == {[integer |-> TRUE, value |-> n] : n \in 0..MaxInput} \cup {[integer |-> FALSE]}

NoLine == [integer |-> FALSE]

(***************************************************************************)
(* main(), interpreter::interpreter and interpreter::run.                  *)
(***************************************************************************)
\* What parse() makes of each source text.
Parsed == [text \in Sources |-> parse(text)]

NoProgram == [stmts |-> <<>>, blocks |-> <<>>]

Init ==
    /\ source \in Sources
    /\ program = NoProgram
    /\ blocks = <<>>
    /\ next_frame = 1
    /\ should_stop = FALSE
    /\ scratch = <<>>
    /\ output = ""
    /\ status = "start"
    /\ error_message = ""
    /\ cerr = ""
    /\ executed = <<>>
    /\ iterated = <<>>
    /\ assigned = <<>>
    /\ jumped_to = NullStatement
    /\ stale = {}
    /\ front_on_empty = FALSE

Commit(m) ==
    /\ blocks' = m.blocks
    /\ should_stop' = m.should_stop
    /\ scratch' = m.scratch
    /\ output' = m.output
    /\ status' = m.status
    /\ error_message' = m.error_message
    /\ cerr' = IF m.status = "error"
               THEN cerr \o "Runtime error: " \o m.error_message \o "\n"
               ELSE cerr
    /\ iterated' = m.iterated
    /\ assigned' = m.assigned
    /\ next_frame' = m.next_frame
    /\ jumped_to' = m.jumped_to
    /\ stale' = m.stale
    /\ front_on_empty' = m.front_on_empty

\* The assertions of the constructor of if_block_stmt.
if_block_stmt_assert(conditions, clauses) ==
    /\ Len(conditions) >= 1
    /\ Len(clauses) >= Len(conditions) /\ Len(clauses) <= Len(conditions) + 1

\* One of the statement nodes that parse() constructed fails an assertion of
\* its constructor.  The statement whose parser threw has no node.
AssertionFailed(stmts) ==
    \E s \in 1..Len(stmts) :
        /\ "node" \in DOMAIN stmts[s]
        /\ stmts[s].node = "if_block"
        /\ ~if_block_stmt_assert(stmts[s].conditions, stmts[s].blocks)

\* Variant of main(): each line is executed as soon as it is parsed, so that the
\* lines before a faulty one have run when the error is reported.
Parse_line_by_line ==
    /\ status = "start"
    /\ \E parsed \in {Parsed[source]} :
           \/ /\ AssertionFailed(parsed.stmts)
              /\ status' = "aborted"
              /\ cerr' = "Assertion failed: blocks.size() >= conditions.size() && "
                         \o "blocks.size() <= conditions.size() + 1\n"
              /\ UNCHANGED <<error_message, program, blocks, next_frame, scratch, executed>>
           \/ IF Good(parsed)
              THEN /\ program' = [stmts |-> parsed.stmts, blocks |-> parsed.blocks]
                   /\ blocks' = <<execution_block(1, NullStatement, 1)>>
                   /\ next_frame' = 2
                   /\ scratch' = [s \in {t \in 1..Len(parsed.stmts) : parsed.stmts[t].node = "for"} |->
                                    [step |-> number_default, final_value |-> number_default]]
                   /\ status' = "running"
                   /\ UNCHANGED <<error_message, cerr, executed>>
              ELSE /\ status' = parsed.error.kind
                   /\ error_message' = parsed.error.what
                   /\ cerr' = (IF parsed.error.kind = "lexer_error"
                               THEN "Lexer error: " ELSE "Syntax error: ")
                              \o parsed.error.what \o "\n"
                   /\ executed' = [k \in 1..(Len(parsed.stmts) - 1) |-> k]
                   /\ UNCHANGED <<program, blocks, next_frame, scratch>>
    /\ UNCHANGED <<source, should_stop, output, iterated, assigned, jumped_to,
                   stale, front_on_empty>>

\* main() up to the call of run(): the text is parsed and the interpreter
\* constructed on the tree, its stack holding a frame for the root block with no
\* statement attached.  An exception of the lexer or the parser is reported on
\* std::cerr and main() returns; the place in the text that the message names is
\* left out.  Where the constructor of a statement node fails an assertion, a
\* build with assertions aborts there, and a build with NDEBUG goes on with the
\* node as it is.
Parse ==
    /\ status = "start"
    /\ \E parsed \in {Parsed[source]} :
           \/ /\ AssertionFailed(parsed.stmts)
              /\ status' = "aborted"
              /\ cerr' = "Assertion failed: blocks.size() >= conditions.size() && "
                         \o "blocks.size() <= conditions.size() + 1\n"
              /\ UNCHANGED <<error_message, program, blocks, next_frame, scratch>>
           \/ IF Good(parsed)
              THEN /\ program' = [stmts |-> parsed.stmts, blocks |-> parsed.blocks]
                   /\ blocks' = <<execution_block(1, NullStatement, 1)>>
                   /\ next_frame' = 2
                   /\ scratch' = [s \in {t \in 1..Len(parsed.stmts) : parsed.stmts[t].node = "for"} |->
                                    [step |-> number_default, final_value |-> number_default]]
                   /\ status' = "running"
                   /\ UNCHANGED <<error_message, cerr>>
              ELSE /\ status' = parsed.error.kind
                   /\ error_message' = parsed.error.what
                   /\ cerr' = (IF parsed.error.kind = "lexer_error"
                               THEN "Lexer error: " ELSE "Syntax error: ")
                              \o parsed.error.what \o "\n"
                   /\ UNCHANGED <<program, blocks, next_frame, scratch>>
    /\ UNCHANGED <<source, should_stop, output, executed, iterated, assigned, jumped_to,
                   stale, front_on_empty>>

\* The test of the outer loop, made after a frame was left: run() returns when
\* the stack is empty or the stop flag is set.
OuterTest(m) ==
    IF m.status = "running" /\ (m.blocks = <<>> \/ m.should_stop)
    THEN [m EXCEPT !.status = "returned"] ELSE m

\* What the frame's cursor is when it is used: an iterator into the frame's own
\* list as it is; one into a destroyed list is undefined behaviour, which either
\* crashes or acts as the iterator at the same place of the frame's list.
Cursor(frame) == Iterator(frame.block, frame.current_statement.pos)

Dangling(frame) == frame.current_statement.list = Destroyed

AtEnd(frame) == frame.current_statement.pos > Len(BlockObject(frame.block).statements)

\* Variant of leave_block: the hook is invoked with the finished frame still on
\* the stack.
leave_block_unpopped(m) ==
    LET statement == Head(m.blocks).statement
    IN  IF statement # NullStatement
        THEN iterate([m EXCEPT !.iterated = Append(@, statement)], statement)
        ELSE exit_block(m)

\* The end of a block in run(): the statement of the front frame is read, the
\* frame popped, and the statement, if any, iterated.
leave_block(m) ==
    LET statement == Head(m.blocks).statement
        popped == exit_block(m)
    IN  IF statement # NullStatement
        THEN iterate([popped EXCEPT !.iterated = Append(@, statement)], statement)
        ELSE popped

\* One turn of the inner loop: the statement at the cursor is executed, the
\* cursor advanced first.
RunStatement ==
    /\ status = "running"
    /\ Len(executed) < MaxSteps
    /\ blocks # <<>>
    /\ ~AtEnd(Head(blocks))
    /\ ~should_stop
    /\ LET current_block == Head(blocks)
           current == BlockObject(current_block.block).statements[current_block.current_statement.pos]
           advanced == [Machine EXCEPT !.blocks[1].current_statement =
                                           Iterator(current_block.block, Cursor(current_block).pos + 1),
                                       !.jumped_to = NullStatement]
       IN  \E crash \in IF Dangling(current_block) THEN BOOLEAN ELSE {FALSE} :
           \E line \in IF StatementNode(current).node = "input" THEN Lines ELSE {NoLine} :
              IF crash
              THEN Commit(Crashed(Machine)) /\ UNCHANGED executed
              ELSE Commit(execute(advanced, current, line))
                   /\ executed' = Append(executed, current)
    /\ UNCHANGED <<source, program>>

\* The inner loop has ended: the front frame's statement is read, the frame is
\* popped and the statement, if any, iterated; then the outer loop's test.  After
\* STOP the deque is empty and front() is undefined behaviour: it crashes, or reads
\* the statement field of a frame that stop() destroyed.
RunEndOfBlock ==
    /\ status = "running"
    /\ IF blocks = <<>>
       THEN \E crash \in BOOLEAN, statement \in stale :
               LET m == [Machine EXCEPT !.front_on_empty = TRUE]
               IN  IF crash THEN Commit(Crashed(m))
                   ELSE IF statement # NullStatement
                        THEN Commit(OuterTest(iterate([m EXCEPT !.iterated = Append(@, statement)],
                                                      statement)))
                        ELSE Commit(OuterTest(m))
       ELSE /\ AtEnd(Head(blocks))
            /\ Commit(OuterTest(leave_block(Machine)))
    /\ UNCHANGED <<source, program, executed>>

Next == Parse \/ RunStatement \/ RunEndOfBlock

Spec == Init /\ [][Next]_vars

(***************************************************************************)
(* Properties of the control engine and of the variable store.             *)
(***************************************************************************)
Last(seq) == seq[Len(seq)]

\* The step executes a statement of kind `node`.
Executes(node) ==
    executed' # executed /\ StatementNode(Last(executed')).node = node

Namespaces == {"numeric_variables", "string_variables"}

Least(S) == CHOOSE i \in S : \A j \in S : i <= j

\* The frames of `bs`, front first, that bind `name`.
Binding(bs, name, variables) == {i \in 1..Len(bs) : name \in DOMAIN bs[i][variables]}

FrameIds(bs) == {bs[i].id : i \in 1..Len(bs)}

\* The frames of `bs` attached to a loop statement called `name`.
NamedFrames(bs, name) ==
    {k \in 1..Len(bs) : /\ bs[k].statement # NullStatement
                        /\ StatementNode(bs[k].statement).name = name}

\* The frames of `bs` whose block defines `label`.
DefiningFrames(bs, label) ==
    {k \in 1..Len(bs) : label \in DOMAIN BlockObject(bs[k].block).jump_table}

\* Where `statement` stands in the statement list of block `b`.
PositionOf(statement, b) ==
    CHOOSE pos \in 1..Len(BlockObject(b).statements) :
        BlockObject(b).statements[pos] = statement

\* The label statement `this` jumps to when it is executed on the stack `bs`, ""
\* when it does not jump.
JumpLabel(this, bs) ==
    LET st == StatementNode(this)
    IN  IF st.node = "goto" THEN st.label
        ELSE IF st.node = "if_goto"
             THEN LET condition == evaluate(st.condition, bs)
                  IN  IF condition.res # "value" THEN ""
                      ELSE IF is_true(condition.value) THEN st.then_label
                      ELSE st.else_label
        ELSE ""

\* C1: when STOP executes, at any nesting depth, the frame stack is cleared and
\* the stop flag set, and run() then returns: no further statement is executed
\* and no iterate hook invoked.
C1_StopReturnsAtOnce ==
    [][/\ Executes("stop") => (blocks' = <<>> /\ should_stop' /\ status' = "running")
       /\ (status = "running" /\ should_stop)
             => /\ status' = "returned"
                /\ blocks' = <<>>
                /\ executed' = executed
                /\ iterated' = iterated]_vars

\* C2: a jump to a label that the block of some frame defines pops the frames
\* above the innermost such frame without invoking iterate, sets that frame's
\* cursor to the labelled statement of its block and leaves the frames below as
\* they are; the statement executed next is the labelled one.
C2_JumpUnwindsToLabel ==
    [][/\ \A this \in 1..Len(program.stmts) :
             (/\ executed' = Append(executed, this)
              /\ JumpLabel(this, blocks) # ""
              /\ DefiningFrames(blocks, JumpLabel(this, blocks)) # {})
             => LET label == JumpLabel(this, blocks)
                    k == Least(DefiningFrames(blocks, label))
                    target == BlockObject(blocks[k].block).jump_table[label].pos
                IN  /\ status' = "running"
                    /\ iterated' = iterated
                    /\ blocks' = [SubSeq(blocks, k, Len(blocks)) EXCEPT
                                     ![1].current_statement = Iterator(blocks[k].block, target)]
       /\ (jumped_to # NullStatement /\ executed' # executed)
             => Last(executed') = jumped_to]_vars

\* C3: EXIT of a loop kind that some frame is attached to pops the frames up to
\* and including the innermost such frame without invoking iterate, and leaves
\* the frames below as they are: the cursor of the new front frame stands after
\* the loop statement, where execution continues.
C3_ExitLeavesNamedLoop ==
    [][\A this \in 1..Len(program.stmts) :
          (/\ executed' = Append(executed, this)
           /\ StatementNode(this).node = "exit"
           /\ NamedFrames(blocks, StatementNode(this).what) # {})
          => LET k == Least(NamedFrames(blocks, StatementNode(this).what))
                 loop == blocks[k].statement
             IN  /\ status' = "running"
                 /\ iterated' = iterated
                 /\ blocks' = SubSeq(blocks, k + 1, Len(blocks))
                 /\ blocks' # <<>>
                 /\ Head(blocks').current_statement =
                        Iterator(Head(blocks').block,
                                 PositionOf(loop, Head(blocks').block) + 1)]_vars

C3_Witness ==
    /\ program = ExitOuterFor
    /\ executed # <<>>
    /\ StatementNode(Last(executed)).node = "exit"
    /\ status = "running"
    /\ Len(blocks) = 1

\* C4: iterate is invoked exactly when the cursor of the front frame has reached
\* the end of its block: the frame is popped first and the hook of its statement
\* invoked once; a frame with no statement is popped with no hook; run() returns
\* when the stack becomes empty.
C4_IterateOnlyAtEndOfBlock ==
    [][/\ iterated' # iterated
             => /\ blocks # <<>>
                /\ AtEnd(Head(blocks))
                /\ Head(blocks).statement # NullStatement
                /\ iterated' = Append(iterated, Head(blocks).statement)
       /\ (status = "running" /\ blocks # <<>> /\ AtEnd(Head(blocks)))
             => /\ Head(blocks).id \notin FrameIds(blocks')
                /\ IF Head(blocks).statement # NullStatement
                   THEN iterated' = Append(iterated, Head(blocks).statement)
                   ELSE iterated' = iterated /\ blocks' = Tail(blocks)
       /\ (status = "running" /\ status' = "returned") => blocks' = <<>>
       /\ (status = "running" /\ blocks = <<>>) => status' = "returned"]_vars

\* C5: no two frames of the stack are attached to the same loop statement, and
\* the step and final value a FOR statement keeps are written only while no
\* frame is attached to it.
C5_OneFramePerStatement ==
    /\ [](\A i, j \in 1..Len(blocks) :
             (i # j /\ blocks[i].statement # NullStatement)
                => blocks[i].statement # blocks[j].statement)
    /\ [][\A this \in DOMAIN scratch :
             scratch'[this] # scratch[this]
                => \A i \in 1..Len(blocks) : blocks[i].statement # this]_vars

C5_Witness ==
    /\ program = GotoRestartsFor
    /\ Cardinality({k \in 1..Len(executed) : executed[k] = 2}) = 3
    /\ Len(iterated) >= 1
    /\ \E i \in 1..Len(blocks) : blocks[i].statement = 2

\* The text the body PRINT I of a FOR loop writes in `n` iterations from `i` on.
RECURSIVE ForOutput(_, _, _)
ForOutput(i, s, n) ==
    IF n = 0 THEN "" ELSE ToString(i) \o "\n" \o ForOutput(i + s, s, n - 1)

ForTimes(i, f, s) == IF f >= i THEN ((f - i) \div s) + 1 ELSE 0

Occurrences(seq, x) == Cardinality({k \in 1..Len(seq) : seq[k] = x})

\* C6: FOR v = i TO f STEP s with s > 0, whose body neither assigns v nor leaves
\* the loop, runs its body floor((f - i) / s) + 1 times when f >= i and not at all
\* otherwise, v being i, i + s, i + 2s, ... in the successive executions.
C6_ForRunsCountedTimes ==
    \A p \in ForInputs :
       LET times == ForTimes(p[1], p[2], p[3])
           text == ForOutput(p[1], p[3], times) \o ".\n"
       IN  /\ (program = ForCount(p[1], p[2], p[3]) /\ status = "returned")
              => (output = text /\ Occurrences(executed, 3) = times)
           /\ (program = ForCountNested(p[1], p[2], p[3]) /\ status = "returned")
              => (output = text /\ Occurrences(executed, 5) = times)

C6_Witness ==
    /\ program = ForCount(0, 3, 2)
    /\ status = "returned"
    /\ Occurrences(executed, 3) = 2

\* The frames of `after` bind what the frames of `before` bind, to the same
\* values, but for `name` of `variables` in frame `k`.
SameBindingsBut(before, after, k, variables, name) ==
    /\ Len(after) = Len(before)
    /\ \A i \in 1..Len(before) : \A v \in Namespaces :
          /\ after[i].id = before[i].id
          /\ DOMAIN after[i][v] \ {name} = DOMAIN before[i][v] \ {name}
          /\ \A n \in DOMAIN before[i][v] :
                (i = k /\ v = variables /\ n = name)
                   \/ (n \in DOMAIN after[i][v] /\ after[i][v][n] = before[i][v][n])
          /\ (name \in DOMAIN after[i][v] /\ name \notin DOMAIN before[i][v])
                => (i = k /\ v = variables)

C8_VariablesDieWithTheirFrame ==
    [][\A v \in Namespaces :
          /\ \A k \in 1..Len(blocks') : \A n \in DOMAIN blocks'[k][v] :
                Binding(blocks, n, v) = {}
                   => (blocks # <<>> /\ blocks'[k].id = Head(blocks).id)
          /\ \A i \in 1..Len(blocks) :
                blocks[i].id \notin FrameIds(blocks')
                   => \A n \in DOMAIN blocks[i][v] : Binding(blocks', n, v) = {}
          /\ \A k \in 1..Len(blocks') :
                blocks'[k].id \notin FrameIds(blocks) => DOMAIN blocks'[k][v] = {}]_vars

C8_Witness ==
    /\ program = ScopeDo
    /\ status = "error"
    /\ error_message = "Variable y undefined"
    /\ Len(iterated) = 1

\* The variables PRINT or LET statement `st` reads, in the order it reads them,
\* when each of its expressions is a literal or a variable.
ReadsOf(st) ==
    LET expressions == IF st.node = "print" THEN st.expressions ELSE <<st.value>>
        variable == {i \in 1..Len(expressions) :
                        expressions[i].node \in {"variable", "string_variable"}}
    IN  [i \in variable |->
            IF expressions[i].node = "variable"
            THEN <<"numeric_variables", expressions[i].name>>
            ELSE <<"string_variables", expressions[i].var_name>>]

SimpleReader(st) ==
    /\ st.node \in {"print", "let"}
    /\ \A i \in 1..Len(IF st.node = "print" THEN st.expressions ELSE <<st.value>>) :
          (IF st.node = "print" THEN st.expressions ELSE <<st.value>>)[i].node
             \in {"variable", "string_variable", "string_literal", "constant"}

\* The text of a value of either kind.
TextOf(variables, value) ==
    IF variables = "numeric_variables" THEN number_repr(value) ELSE value

\* What PRINT statement `st` writes on the stack `bs` when every variable it
\* reads is bound: each variable gives the value its innermost binding has.
RECURSIVE PrintedFrom(_, _, _)
PrintedFrom(st, bs, i) ==
    IF i > Len(st.expressions) THEN "\n"
    ELSE LET expr == st.expressions[i]
             text == IF expr.node = "string_literal" THEN expr.text
                     ELSE IF expr.node = "constant" THEN number_repr(expr.value)
                     ELSE LET read == ReadsOf(st)[i]
                          IN  TextOf(read[1],
                                     bs[Least(Binding(bs, read[2], read[1]))][read[1]][read[2]])
         IN  text \o PrintedFrom(st, bs, i + 1)

RECURSIVE PrintedAssigned(_, _, _)
PrintedAssigned(st, values, i) ==
    IF i > Len(st.expressions) THEN "\n"
    ELSE LET expr == st.expressions[i]
             text == IF expr.node = "string_literal" THEN expr.text
                     ELSE IF expr.node = "constant" THEN number_repr(expr.value)
                     ELSE TextOf(ReadsOf(st)[i][1], values[ReadsOf(st)[i]])
         IN  text \o PrintedAssigned(st, values, i + 1)

\* C10: a read of a variable whose frame is still on the stack gives the value
\* that the last assignment to it stored, whatever frames were pushed and popped
\* above in between.
C10_ReadGivesLastAssigned ==
    /\ [](\A i \in 1..Len(blocks) : \A v \in Namespaces : \A n \in DOMAIN blocks[i][v] :
             /\ <<v, n>> \in DOMAIN assigned
             /\ blocks[i][v][n] = assigned[<<v, n>>])
    /\ [][\A this \in 1..Len(program.stmts) :
             (/\ executed' = Append(executed, this)
              /\ StatementNode(this).node = "print"
              /\ SimpleReader(StatementNode(this))
              /\ status' = "running")
             => output' = output \o PrintedAssigned(StatementNode(this), assigned, 1)]_vars

C10_Witness ==
    /\ program = LetThenRead
    /\ output = "24\n"
    /\ Len(blocks) = 3
    /\ blocks[3].numeric_variables["y"] = number_int(4)

\* The labels the jump statements of the program name.
JumpLabels ==
    {StatementNode(this).label :
        this \in {t \in 1..Len(program.stmts) : StatementNode(t).node = "goto"}}
    \cup UNION {{StatementNode(this).then_label, StatementNode(this).else_label} :
                  this \in {t \in 1..Len(program.stmts) : StatementNode(t).node = "if_goto"}}

\* C11: a GOTO or IF-GOTO executed with a label that the block of no frame on
\* the stack defines ends the run with the runtime error "Jump to undefined label
\* <L>", and after it no statement is executed and no hook invoked; that error
\* arises only from the step that executes such a jump, so a jump to an undefined
\* label that is never taken fails neither when the text is parsed nor when the
\* program runs.
C11_UndefinedLabelIsFatal ==
    /\ [][/\ \A this \in 1..Len(program.stmts) :
                (/\ executed' = Append(executed, this)
                 /\ JumpLabel(this, blocks) # ""
                 /\ DefiningFrames(blocks, JumpLabel(this, blocks)) = {})
                => /\ status' = "error"
                   /\ error_message' = "Jump to undefined label " \o JumpLabel(this, blocks)
                   /\ cerr' = cerr \o "Runtime error: Jump to undefined label "
                                   \o JumpLabel(this, blocks) \o "\n"
                   /\ output' = output
          /\ status = "error"
                => (executed' = executed /\ iterated' = iterated /\ output' = output)
          /\ \A label \in JumpLabels :
                (status # "error" /\ status' = "error"
                 /\ error_message' = "Jump to undefined label " \o label)
                => /\ executed' # executed
                   /\ JumpLabel(Last(executed'), blocks) = label
                   /\ DefiningFrames(blocks, label) = {}]_vars
    /\ [](source = GotoNeverTakenText => status \in {"start", "running", "returned"})

C11_Witness ==
    /\ source = GotoIntoDoText
    /\ status = "error"
    /\ executed = <<1>>
    /\ error_message = "Jump to undefined label inner"
    /\ cerr = "Runtime error: Jump to undefined label inner\n"

\* C12: EXIT <name> executed when no frame on the stack is attached to a loop
\* statement called <name> (EXIT FOR inside a DO only, EXIT IF, EXIT in the root
\* block) ends the run with the runtime error "Cannot EXIT <name>: No such block",
\* and no further statement of the program is executed.
C12_ExitWithoutLoopIsFatal ==
    [][/\ \A this \in 1..Len(program.stmts) :
             (/\ executed' = Append(executed, this)
              /\ StatementNode(this).node = "exit"
              /\ NamedFrames(blocks, StatementNode(this).what) = {})
             => /\ status' = "error"
                /\ error_message' = "Cannot EXIT " \o StatementNode(this).what \o ": No such block"
                /\ cerr' = cerr \o "Runtime error: " \o error_message' \o "\n"
                /\ output' = output
                /\ iterated' = iterated
       /\ (status = "error" /\ executed # <<>> /\ StatementNode(Last(executed)).node = "exit")
             => (executed' = executed /\ iterated' = iterated /\ output' = output
                 /\ status' = "error")]_vars

C12_Witness ==
    /\ source = ExitIfText
    /\ status = "error"
    /\ Len(executed) = 3
    /\ StatementNode(Last(executed)).node = "exit"
    /\ output = "0\n"
    /\ cerr = "Runtime error: Cannot EXIT if: No such block\n"

\* The stack with the cursor of the front frame moved past the statement it is
\* about to execute.
Advanced(bs) ==
    [bs EXCEPT ![1].current_statement = Iterator(bs[1].block, Cursor(bs[1]).pos + 1)]

\* The value of the condition of DO statement `this` on the stack `bs`.
DoCondition(this, bs) == evaluate(StatementNode(this).condition, bs)

\* C13: the condition of a DO WHILE is evaluated when the DO statement is
\* executed and again each time the frame of its body reaches its end (the frame
\* popped first); at both moments the body is entered, in a new frame attached to
\* the DO statement, exactly when the value is truthy, and a body frame is pushed
\* by no step whose evaluation is not truthy.  On a falsy value at the start the
\* body runs zero times, and on a falsy value at the end of the body the
\* enclosing frame goes on with the statement after LOOP.
C13_DoWhileTestsBeforeEachPass ==
    /\ [][/\ \A this \in 1..Len(program.stmts) :
                (/\ executed' = Append(executed, this)
                 /\ StatementNode(this).node = "do"
                 /\ DoCondition(this, blocks).res = "value")
                => /\ iterated' = iterated
                   /\ status' = "running"
                   /\ blocks' = IF is_true(DoCondition(this, blocks).value)
                                THEN <<execution_block(StatementNode(this).body, this, next_frame)>>
                                     \o Advanced(blocks)
                                ELSE Advanced(blocks)
          /\ \A this \in 1..Len(program.stmts) :
                (/\ status = "running"
                 /\ blocks # <<>>
                 /\ AtEnd(Head(blocks))
                 /\ Head(blocks).statement = this
                 /\ StatementNode(this).node = "do"
                 /\ DoCondition(this, Tail(blocks)).res = "value")
                => /\ iterated' = Append(iterated, this)
                   /\ executed' = executed
                   /\ status' = "running"
                   /\ blocks' = IF is_true(DoCondition(this, Tail(blocks)).value)
                                THEN <<execution_block(StatementNode(this).body, this, next_frame)>>
                                     \o Tail(blocks)
                                ELSE Tail(blocks)
                   /\ Head(Tail(blocks)).current_statement =
                          Iterator(Head(Tail(blocks)).block,
                                   PositionOf(this, Head(Tail(blocks)).block) + 1)
          /\ \A k \in 1..Len(blocks') :
                (/\ blocks'[k].id \notin FrameIds(blocks)
                 /\ blocks'[k].statement # NullStatement
                 /\ StatementNode(blocks'[k].statement).node = "do")
                => /\ k = 1
                   /\ DoCondition(blocks'[1].statement, Tail(blocks')).res = "value"
                   /\ is_true(DoCondition(blocks'[1].statement, Tail(blocks')).value)]_vars
    /\ []((source = DoNeverText /\ status = "returned")
             => (executed = <<1, 4>> /\ iterated = <<>> /\ output = "2\n"))

C13_Witness ==
    /\ source = DoTwiceText
    /\ status = "returned"
    /\ iterated = <<2, 2>>
    /\ Occurrences(executed, 2) = 1
    /\ Occurrences(executed, 3) = 2
    /\ output = "1\n2\n.\n"

\* The conditions of IF statement `this` that are truthy on the stack `bs`, and
\* those that cannot be evaluated on it.
Truthy(this, bs) ==
    {i \in 1..Len(StatementNode(this).conditions) :
        /\ evaluate(StatementNode(this).conditions[i], bs).res = "value"
        /\ is_true(evaluate(StatementNode(this).conditions[i], bs).value)}

Failing(this, bs) ==
    {i \in 1..Len(StatementNode(this).conditions) :
        evaluate(StatementNode(this).conditions[i], bs).res # "value"}

\* The block an IF statement enters: that of its first truthy condition, the
\* trailing ELSE block when no condition is truthy, 0 when there is none.
Chosen(this, bs) ==
    IF Truthy(this, bs) # {} THEN StatementNode(this).blocks[Least(Truthy(this, bs))]
    ELSE IF Len(StatementNode(this).blocks) = Len(StatementNode(this).conditions) + 1
    THEN Last(StatementNode(this).blocks)
    ELSE 0

\* C14: an IF block evaluates its conditions in order and enters the block of
\* the first truthy one; with no truthy condition it enters the ELSE block if
\* there is one and nothing otherwise.  One frame at most is pushed, with no
\* statement attached, so that the end of the block pops it with no iterate hook;
\* the conditions after the first truthy one are not evaluated: that one of them
\* cannot be evaluated does not matter.
C14_IfBlockEntersFirstTruthy ==
    [][/\ \A this \in 1..Len(program.stmts) :
             (/\ executed' = Append(executed, this)
              /\ StatementNode(this).node = "if_block"
              /\ \A i \in Failing(this, blocks) :
                    \E j \in Truthy(this, blocks) : j < i)
             => /\ status' = "running"
                /\ iterated' = iterated
                /\ output' = output
                /\ blocks' = IF Chosen(this, blocks) # 0
                             THEN <<execution_block(Chosen(this, blocks), NullStatement,
                                                    next_frame)>>
                                  \o Advanced(blocks)
                             ELSE Advanced(blocks)
       /\ (/\ status = "running"
           /\ blocks # <<>>
           /\ AtEnd(Head(blocks))
           /\ Head(blocks).statement = NullStatement)
             => (iterated' = iterated /\ blocks' = Tail(blocks))]_vars

C14_Witness ==
    /\ source = IfChainText
    /\ status = "returned"
    /\ Len(executed) = 4
    /\ iterated = <<>>
    /\ output = "? a\n.\n"

\* The number FOR statement `this` gives its variable at the end of a pass of
\* its body, on the stack `bs` left when the body's frame was popped.
NextValue(this, bs) ==
    number_plus(get_var_numeric(bs, StatementNode(this).variable_name).value,
                scratch[this].step)

\* C15: the step and the final value of a FOR are evaluated when the FOR
\* statement is executed and at no other step: they change on no other step,
\* whatever the body assigns, and the test made at the end of each pass of the
\* body uses the values kept.
C15_ForBoundsEvaluatedOnce ==
    /\ [][/\ \A this \in DOMAIN scratch :
                /\ scratch'[this] # scratch[this] => executed' = Append(executed, this)
                /\ (executed' = Append(executed, this) /\ status' = "running")
                      => /\ scratch'[this].step
                               = evaluate(StatementNode(this).step_expression, blocks').value
                         /\ scratch'[this].final_value
                               = evaluate(StatementNode(this).final_expression, blocks').value
          /\ \A this \in DOMAIN scratch :
                (/\ status = "running"
                 /\ blocks # <<>>
                 /\ AtEnd(Head(blocks))
                 /\ Head(blocks).statement = this
                 /\ get_var_numeric(Tail(blocks), StatementNode(this).variable_name).res = "value")
                => /\ scratch' = scratch
                   /\ IF for_condition(scratch[this].step, NextValue(this, Tail(blocks)),
                                       scratch[this].final_value)
                      THEN /\ Len(blocks') = Len(blocks)
                           /\ Head(blocks').statement = this
                           /\ Head(blocks').id \notin FrameIds(blocks)
                      ELSE Len(blocks') = Len(blocks) - 1]_vars
    /\ []((source = ForFrozenText /\ status = "returned") => output = "1\n2\n3\n.\n")

C15_Witness ==
    /\ source = ForFrozenText
    /\ status = "returned"
    /\ output = "1\n2\n3\n.\n"
    /\ scratch[3] = [step |-> number_int(1), final_value |-> number_int(3)]
    /\ assigned[<<"numeric_variables", "f">>] = number_int(10)
    /\ assigned[<<"numeric_variables", "s">>] = number_int(2)

\* The states of main() after an exception was reported.
Failed == {"error", "syntax_error", "lexer_error"}

\* C16: the program of six lines whose DO body holds the single-line
\* IF X >= 3 THEN EXIT DO is accepted by the parser, and its run prints 3 and a
\* line break: the EXIT DO leaves the loop when X reaches 3.
C16_SingleLineIfExitDo ==
    source = ExitDoInlineText
        => /\ status \notin Failed
           /\ status = "returned" => output = "3\n"

\* C17: the program PRINT "hello" whose text ends right after the closing
\* quote, with no line break, is accepted and prints hello and a line break.
C17_LastLineNeedsNoLineBreak ==
    source = HelloUnterminatedText
        => /\ status \notin Failed
           /\ status = "returned" => output = "hello\n"

\* C18: an error ends the program: once an exception has reached main() no
\* statement is executed, no hook invoked and nothing printed; a runtime error
\* is reported on std::cerr as "Runtime error: " and its message.  The run of
\* PRINT 1/0, PRINT "answer" ends in the first statement with "Division by zero"
\* and prints nothing.
C18_ErrorsAreFatal ==
    /\ [][/\ status \in Failed
                => UNCHANGED <<executed, iterated, output, blocks, status, cerr, assigned>>
          /\ (status = "running" /\ status' = "error")
                => /\ cerr' = cerr \o "Runtime error: " \o error_message' \o "\n"
                   /\ executed' # executed \/ iterated' # iterated \/ front_on_empty']_vars
    /\ [](source = DivisionByZeroText
             => /\ status \in {"start", "running", "error"}
                /\ output = ""
                /\ status = "error"
                      => /\ executed = <<1>>
                         /\ error_message = "Division by zero"
                         /\ cerr = "Runtime error: Division by zero\n")

C18_Witness ==
    /\ source = DivisionByZeroText
    /\ status = "error"
    /\ executed = <<1>>
    /\ output = ""
    /\ cerr = "Runtime error: Division by zero\n"

\* C19: parse() returns normally when the root block ends at the end of the
\* input or with END followed by nothing but spaces, tabs or a last line break;
\* a root block ended by ELSE, ELSEIF, NEXT or LOOP, or by END and further
\* tokens, is a syntax error.
C19_RootBlockTerminators ==
    /\ source \in {HelloText, EndAtEofText, EndBlankText, EndLineText}
          => status \notin Failed
    /\ (/\ source \in {EndThenMoreText, LoopAtRootText, NextAtRootText, ElseAtRootText,
                        ElseifAtRootText}
        /\ status # "start")
          => status = "syntax_error"

\* C20: REM where a statement is expected discards the rest of its line and no
\* more, whatever the comment is, the empty one included: the statements of the
\* following lines run as if the comment line were not there.
C20_RemDiscardsOneLine ==
    status = "returned"
        => /\ source \in {RemEmptyText, RemWordsText, RemBlankText} => output = "1\n2\n"
           /\ source = RemBetweenText => output = "0\n1\n"

\* The one-letter names that end in $, as the interpreter holds them.
StringNames == {std_string(<<c, "$">>) : c \in Range(LowerChars)}

\* C21: the parser lets a name that ends in $ stand only where a string is
\* meant, at the LET target, the FOR variable, the INPUT target and in every
\* expression, so that no frame of a program it accepted ever binds a number
\* to a name that ends in $.
C21_NoNumberUnderStringName ==
    \A k \in 1..Len(blocks) : DOMAIN blocks[k].numeric_variables \cap StringNames = {}

\* The block IF nodes of the tree.
IfBlocks == {s \in 1..Len(program.stmts) : program.stmts[s].node = "if_block"}

\* C22: every block IF node that the parser constructs has at least one
\* condition and as many clause bodies as conditions, or one more; a sequence
\* of clauses of another shape, such as two ELSE clauses in one IF, is a syntax
\* error and no node is constructed for it.
C22_IfBlockShape ==
    /\ \A s \in IfBlocks :
           /\ Len(program.stmts[s].conditions) >= 1
           /\ Len(program.stmts[s].blocks) - Len(program.stmts[s].conditions) \in {0, 1}
    /\ source = IfTwoElseText /\ status # "start" => status = "syntax_error"

\* C23: a factor with a minus sign before it has the negated value of its
\* operand, whether the operand is a numeric literal, a numeric identifier or
\* an expression in parentheses, and the result of negating an integer is an
\* integer: with the operand 2 each of the three forms prints -2.
C23_MinusNegatesFactor ==
    source \in {MinusLiteralText, MinusNameText, MinusParenthesisText} /\ status = "returned"
        => output = "-2\n"

\* C24: a division fails with the runtime error Division by zero exactly when
\* the integer part of the value of the divisor is zero: dividing by 0 and by
\* 0.5 fails, and dividing by a value with another integer part succeeds, also
\* when that value was computed from floating values, as 0.5 + 0.5 is.
C24_DivisionFailsOnZeroIntegerPart ==
    /\ source = DivideBySumText => status # "error"
    /\ source \in {DivisionByZeroText, DivideByHalfText} /\ status \notin {"start", "running"}
           => status = "error" /\ error_message = "Division by zero"

\* C25: for all ints a and b with b not 0, a / b is an integer, the exact
\* quotient, when b divides a, and a floating value otherwise: 4/2 prints the
\* integer 2, 1/2 prints 0.500000, and every such division gives a number.
C25_IntegerDivisionExactOrFloating ==
    /\ source = DivideMinText => status # "crashed"
    /\ source = DivideExactText /\ status = "returned" => output = "2\n"
    /\ source = DivideInexactText /\ status = "returned" => output = "0.500000\n"

\* The lexemes that get_lexeme gives of a text one after another, up to the end
\* of the input or to a lexer_error.
RECURSIVE lexemes_from(_, _)
lexemes_next(read, lexed) ==
    IF lexed.error # "" THEN [lexemes |-> read, error |-> lexed.error]
    ELSE IF lexed.lexeme = NoLexeme THEN [lexemes |-> read, error |-> ""]
    ELSE lexemes_from(lexed.lexer, Append(read, lexed.lexeme))

lexemes_from(lx, read) == lexemes_next(read, get_lexeme(lx))

\* A lexeme written out: the value it stores, a string between quotes again,
\* the end of a statement as a line break.
Written(lex) ==
    CASE lex.type = "type_string" -> <<"\"">> \o lex.value \o <<"\"">>
      [] lex.type = "type_end" -> <<"\n">>
      [] OTHER -> lex.value

\* The lexemes written out with a space between them.
RECURSIVE WriteOut(_)
WriteOut(lexemes) ==
    IF lexemes = <<>> THEN <<>>
    ELSE IF Len(lexemes) = 1 THEN Written(lexemes[1])
    ELSE Written(lexemes[1]) \o <<" ">> \o WriteOut(Tail(lexemes))

Kinds(lexemes) == [i \in DOMAIN lexemes |-> lexemes[i].type]

\* What the lexer makes of a text, and of what it made of it written out.
RoundTripOf(first) ==
    [first |-> first, again |-> lexemes_from(lexer(WriteOut(first.lexemes)), <<>>)]

RoundTrip == [text \in Sources |-> RoundTripOf(lexemes_from(lexer(text), <<>>))]

\* C26: for every text the lexer accepts, the lexemes it gives, written out and
\* lexed again, are lexemes of the same kinds in the same order; so the value
\* a number lexeme stores, its leading zeroes stripped, is lexed as one number.
C26_LexerRoundTrip ==
    RoundTrip[source].first.error = ""
        => /\ RoundTrip[source].again.error = ""
           /\ Kinds(RoundTrip[source].again.lexemes) = Kinds(RoundTrip[source].first.lexemes)

\* C27: blocks.front() is never evaluated while the frame stack is empty, in
\* run(), in jump() or in set_var(), on any path, the one after a STOP, an EXIT
\* or a jump included.
C27_FrontOnlyOfFrames ==
    front_on_empty = FALSE

\* C28: once the text is parsed, every entry of the jump table of every block
\* object of the tree, the root block and the bodies and branches the statement
\* nodes keep, is an iterator into the statement list of that block object, at
\* the place of a statement of the list.
C28_JumpTableOfOwnList ==
    \A b \in 1..Len(program.blocks) :
        \A label \in DOMAIN program.blocks[b].jump_table :
            /\ program.blocks[b].jump_table[label].list = b
            /\ program.blocks[b].jump_table[label].pos \in 1..Len(program.blocks[b].statements)

\* C29: in a block IF node the i-th body is the one that follows the THEN of
\* the i-th condition and a last body beyond the conditions is the one that
\* follows ELSE; an ELSE clause before an ELSEIF clause is never accepted with
\* its body paired to the condition of the ELSEIF, so the run of such a text,
\* if there is one, enters the body of the first condition that holds.
C29_BodiesPairedWithTheirConditions ==
    source = IfElseBeforeElseifText /\ status = "returned" => output = "c\n"

\* C30: the remainder of two integers of which the second is zero raises a
\* runtime error, as the division by zero does, and the remainder of ints by
\* zero is never computed: every arithmetic operator gives a number or raises
\* a runtime_error.
C30_ModuloByZeroRaises ==
    source = ModuloByZeroText /\ status \notin {"start", "running"} => status = "error"

C32_OneOperatorPerTerm ==
    /\ source \in {TimesTimesText, DividesDividesText, TimesModText, AndAndText}
           /\ status # "start"
        => status = "syntax_error" /\ executed = <<>> /\ output = ""
    /\ source \in {PlusMinusPlusText, TimesInParenthesesText}
        => /\ status \in {"start", "running", "returned"}
           /\ status = "returned" => executed = <<1>>

\* The parse of PRINT 2 * 3 * 4 has ended at the second operator.
C32_Witness ==
    /\ source = TimesTimesText
    /\ status = "syntax_error"
    /\ error_message = "Expected end of line, got operator"

\* C33: a block is closed by its own terminator and by nothing else.  Of the
\* texts that open a DO, a FOR I or a block IF around PRINT 1, alone or within
\* another block, and go on with LOOP, NEXT I, NEXT J, END IF, ELSE, ELSEIF,
\* END or the end of the input, the parser accepts those where each block is
\* followed by its own terminator, and every other one ends in a syntax error
\* with nothing run.
C33_OwnTerminator ==
    /\ \A o \in Openers, c \in Closers :
           source = BlockText(o, c) /\ status # "start"
               => IF c = OwnCloser(o)
                  THEN status \in {"running", "returned"}
                  ELSE status = "syntax_error" /\ executed = <<>> /\ output = ""
    /\ \A outer \in Openers, inner \in Openers, c2 \in NestedClosers, c1 \in NestedClosers :
           source = NestedBlockText(outer, inner, c2, c1) /\ status # "start"
               => IF c2 = OwnCloser(inner) /\ c1 = OuterOwnCloser(outer)
                  THEN status \in {"running", "returned"}
                  ELSE status = "syntax_error" /\ executed = <<>> /\ output = ""

\* The parse of a FOR I closed by NEXT J within a DO has ended in the error.
C33_Witness ==
    /\ source = NestedBlockText("do", "for", "next j", "loop")
    /\ status = "syntax_error"
    /\ error_message = "Expected i, got j"

\* How often FOR I = i TO f STEP s with s <= 0 enters its body.
ForStepTimes(i, f, s) == IF s < 0 /\ i >= f THEN ((i - f) \div (0 - s)) + 1 ELSE 0

\* The front frame binds I to n.
FrontBindsI(n) ==
    /\ blocks # <<>>
    /\ "i" \in DOMAIN blocks[1].numeric_variables
    /\ blocks[1].numeric_variables["i"] = number_int(n)

C34_WitnessZero ==
    /\ source = ForStepText(1, 3, 0)
    /\ status = "returned"
    /\ Occurrences(executed, 3) = 0
    /\ output = "1\n"

\* The PRINT after a FOR I = 1 TO -1 STEP -1 in the branch of an IF has found I
\* bound in the frame of the branch.
C34_WitnessNested ==
    /\ source = ForStepNestedText(1, 0 - 1, 0 - 1)
    /\ executed # <<>>
    /\ Last(executed) = 5
    /\ Len(blocks) = 2
    /\ FrontBindsI(0 - 2)

\* C35: the whole text is lexed and parsed before anything runs.  When main()
\* has reported a lexer error or a syntax error, no statement has been executed,
\* no hook invoked, no variable assigned, nothing written to the output (no
\* line of a PRINT and no prompt of an INPUT) and no frame pushed.
C35_ParsedBeforeRun ==
    status \in {"syntax_error", "lexer_error"}
        => /\ executed = <<>>
           /\ iterated = <<>>
           /\ assigned = <<>>
           /\ output = ""
           /\ blocks = <<>>
           /\ program = NoProgram

\* The character that starts no lexeme on the fourth line has ended the run.
C35_Witness ==
    /\ source = LateLexerErrorText
    /\ status = "lexer_error"
    /\ cerr = "Lexer error: Invalid character at input: '!' (33)\n"

\* The missing operand on the fourth line has ended the run.
C35_WitnessSyntax ==
    /\ source = LateSyntaxErrorText
    /\ status = "syntax_error"
    /\ output = ""

\* The number the operator gives for the numbers x and y, and the integer it
\* gives for the integers x and y.
Applied(op, x, y) == arith_apply(op, x, y).value

IntegerOf(op, x, y) ==
    CASE op = "plus" -> x + y
      [] op = "minus" -> x - y
      [] op = "times" -> x * y

\* C36: a chain of + and - is grouped from the right and * / MOD bind tighter
\* than + and -.  PRINT a op1 b op2 c prints a op1 (b op2 c) when op1 is + or
\* -, whatever op2 is, and (a op1 b) op2 c when op1 is * / MOD and op2 is + or
\* -; where no division is involved that is the integer the grouping gives.
C36_ChainsGroupFromTheRight ==
    \A p \in ChainInputs :
        source = ChainText(p[1], p[2], p[3], p[4], p[5])
        => /\ status \in {"start", "running", "returned"}
           /\ status = "returned" =>
                LET a == number_int(p[1])
                    b == number_int(p[3])
                    c == number_int(p[5])
                IN  /\ p[2] \in Additive
                        => output = number_repr(Applied(p[2], a, Applied(p[4], b, c))) \o "\n"
                    /\ p[2] \in Multiplicative
                        => output = number_repr(Applied(p[4], Applied(p[2], a, b), c)) \o "\n"
                    /\ p[2] \in Additive /\ p[4] \in Additive \cup {"times"}
                        => output = ToString(IntegerOf(p[2], p[1], IntegerOf(p[4], p[3], p[5])))
                                         \o "\n"
                    /\ p[2] = "times"
                        => output = ToString(IntegerOf(p[4], p[1] * p[3], p[5])) \o "\n"

\* PRINT 2 - 1 - 2 has printed 2 - (1 - 2).
C36_Witness ==
    /\ source = ChainText(2, "minus", 1, "minus", 2)
    /\ status = "returned"
    /\ output = "3\n"

\* PRINT 2 - 1 + 2 has printed 2 - (1 + 2).
C36_WitnessMinusPlus ==
    /\ source = ChainText(2, "minus", 1, "plus", 2)
    /\ status = "returned"
    /\ output = "-1\n"

\* C37: a conditional jump whose condition is true goes on at then_label; one
\* whose condition is false goes on at the ELSE label when it has one, and
\* otherwise at the statement after it, with the frames and every variable as
\* they were.  Going on at a label means that the frames above the innermost
\* frame whose block defines it are popped, that frame's cursor designates the
\* labelled statement of its block, and the statement executed next is that one.
C37_IfGotoJumpsOrFallsThrough ==
    [][/\ \A this \in 1..Len(program.stmts) :
             (/\ executed' = Append(executed, this)
              /\ StatementNode(this).node = "if_goto"
              /\ evaluate(StatementNode(this).condition, blocks).res = "value")
             => LET st == StatementNode(this)
                    truthy == is_true(evaluate(st.condition, blocks).value)
                    label == IF truthy THEN st.then_label ELSE st.else_label
                IN  /\ label = "" \/ DefiningFrames(blocks, label) # {}
                         => /\ status' = "running"
                            /\ iterated' = iterated
                            /\ output' = output
                    /\ label = ""
                         => /\ jumped_to' = NullStatement
                            /\ blocks' = [blocks EXCEPT ![1].current_statement =
                                             Iterator(blocks[1].block,
                                                      PositionOf(this, blocks[1].block) + 1)]
                    /\ label # "" /\ DefiningFrames(blocks, label) # {}
                         => LET k == Least(DefiningFrames(blocks, label))
                                target == BlockObject(blocks[k].block).jump_table[label].pos
                            IN  /\ jumped_to' = BlockObject(blocks[k].block).statements[target]
                                /\ blocks' = [SubSeq(blocks, k, Len(blocks)) EXCEPT
                                                 ![1].current_statement =
                                                     Iterator(blocks[k].block, target)]
       /\ (/\ executed # <<>>
           /\ StatementNode(Last(executed)).node = "if_goto"
           /\ jumped_to # NullStatement
           /\ status = "running")
             => (executed' # executed /\ Last(executed') = jumped_to)]_vars

\* C38: the sum, difference or product of two numbers is integral exactly when
\* both are, and the sum, difference or product of two integral numbers is the
\* integral number of the integer sum, difference or product.  Each step that
\* executes LET v = l op r with op one of + - * assigns such a number, and
\* the run of the assignments X = 0.5 * 2, Y = 3 - 2 * 1, Z = Y + X, W = X - X
\* prints X, Z and W with a decimal point and Y without one.
C38_IntegralIffBothIntegral ==
    /\ [][\A this \in 1..Len(program.stmts) :
            (/\ executed' = Append(executed, this)
             /\ StatementNode(this).node = "let"
             /\ StatementNode(this).value.node = "arith"
             /\ StatementNode(this).value.op \in {"plus", "minus", "times"}
             /\ status' = "running")
            => LET expr == StatementNode(this).value
                   left == evaluate(expr.left_side, blocks).value
                   right == evaluate(expr.right_side, blocks).value
                   result == assigned'[<<"numeric_variables", StatementNode(this).var_name>>]
               IN  /\ result.integral <=> (left.integral /\ right.integral)
                   /\ (left.integral /\ right.integral)
                        => result = number_int(IntegerOf(expr.op, left.integral_value,
                                                         right.integral_value))]_vars
    /\ [](source = MixedArithmeticText /\ status = "returned"
            => output = "1.00000\n1\n2.00000\n0.00000\n")

\* The four assignments have run: X, Z and W are not integral, Y is.
C38_Witness ==
    /\ source = MixedArithmeticText
    /\ Len(executed) = 4
    /\ blocks # <<>>
    /\ DOMAIN blocks[1].numeric_variables = {"x", "y", "z", "w"}
    /\ ~blocks[1].numeric_variables["x"].integral
    /\ blocks[1].numeric_variables["y"] = number_int(1)
    /\ ~blocks[1].numeric_variables["z"].integral
    /\ ~blocks[1].numeric_variables["w"].integral

\* The lexer at the k-th character of the text.
LexerAt(text, k) == lexer(SubSeq(text, k, Len(text)))

\* What get_lexeme consumes of the text from its k-th character on.
Consumed(text, k) ==
    SubSeq(text, k, Len(text) - Len(get_lexeme(LexerAt(text, k)).lexer.source))

LineBreaksOf(chars) == Cardinality({j \in DOMAIN chars : chars[j] = "\n"})

RECURSIVE Joined(_, _, _)
Joined(st, bs, n) ==
    IF n = 0 THEN ""
    ELSE Joined(st, bs, n - 1) \o get_representation(st.expressions[n], bs).value

\* The expressions of a PRINT whose evaluation gives no value.
WithoutValue(st, bs) ==
    {i \in 1..Len(st.expressions) : get_representation(st.expressions[i], bs).res # "value"}

\* C40: PRINT writes the representations of its expressions in the order they
\* are listed, with nothing between them, and then one line break; with no
\* expression it writes the line break alone.  The expressions are evaluated in
\* that order: when one fails, those before it have been written, the failure is
\* the one of the first that fails, and no line break is written.
C40_PrintConcatenates ==
    /\ [][\A this \in 1..Len(program.stmts) :
            (executed' = Append(executed, this) /\ StatementNode(this).node = "print")
            => LET st == StatementNode(this)
                   failing == WithoutValue(st, blocks)
               IN  IF failing = {}
                   THEN /\ status' = "running"
                        /\ output' = output \o Joined(st, blocks, Len(st.expressions)) \o "\n"
                   ELSE /\ status' \in {"error", "crashed"}
                        /\ output' = output \o Joined(st, blocks, Least(failing) - 1)
                        /\ get_representation(st.expressions[Least(failing)], blocks).res = "error"
                              => error_message' =
                                    get_representation(st.expressions[Least(failing)], blocks).what]_vars
    /\ [](/\ source = PrintNothingText /\ status = "returned" => output = "\n"
          /\ source = PrintListText /\ status = "returned" => output = "1a5bc\n"
          /\ source = PrintFailsSecondText /\ status \notin {"start", "running"}
                => status = "error" /\ output = "1" /\ error_message = "Variable x undefined"
          /\ source = PrintFailsDivisionText /\ status \notin {"start", "running"}
                => status = "error" /\ output = "1" /\ error_message = "Division by zero")

\* The PRINT of four expressions has written them and the line break.
C40_Witness ==
    /\ source = PrintListText
    /\ executed = <<1>>
    /\ output = "1a5bc\n"

\* The PRINT with no expression has written the line break.
C40_WitnessNothing ==
    /\ source = PrintNothingText
    /\ executed = <<1>>
    /\ output = "\n"

=============================================================================
